---- MODULE Spec2Model ----
(***************************************************************************)
(* The social-profile enrichment batch runs of the repository:             *)
(*   - the Playwright SocialBlade scraper  (src/prisma/syncInstagramMetrics.js, *)
(*     lines 259-734),                                                      *)
(*   - the Selenium SocialBlade scraper    (src/unnamed/part_003),          *)
(* with the work selection, the login state machine, the per-item loop,    *)
(* the merge into the Player table and the failure ledger.                 *)
(*                                                                         *)
(* Conventions.  Text is a sequence of one-character strings (a few whole  *)
(* words are carried as one token where the code never looks inside them). *)
(* Time is counted in days.  Metrics that are floats in the code           *)
(* (engagement rate, average likes, average comments as scraped) are       *)
(* carried in halves: the integer h stands for h/2, so Math.round is       *)
(* (h + 1) \div 2.  Integer columns (followers, following, posts, avgLikes,*)
(* avgComments as stored) are carried as they are.                         *)
(***************************************************************************)
EXTENDS Integers, Sequences, FiniteSets, TLC

VARIABLES
  variant,        \* which scraper runs: "playwright" or "selenium"
  args,           \* parseArgs(): [force, onlyMissing, startFrom, limit]
  now,            \* Date.now(), in days
  db,             \* the Player table: id -> row
  db0,            \* history: the Player table when the run started
  players,        \* main's `players` after the filters (sequence of ids)
  i,              \* index of the loop over players (1-based)
  pc,             \* position of main
  browser,        \* "none", "open" or "closed"
  session,        \* the persisted browser profile holds a logged-in session
  creds,          \* SOCIALBLADE_EMAIL and SOCIALBLADE_PASSWORD are set
  ledgerExists,   \* fs.existsSync(FAILED_CSV)
  ledger,         \* content of FAILED_CSV
  ledgerExists0,  \* history: ledgerExists at the start
  ledger0,        \* history: ledger at the start
  calls,          \* history: the rows of the appendFailedCsv calls, in call order
  runs,           \* the runs inside appendFailedCsv: run -> [at, exists, row]
  result,         \* the current item's result
  attempt,        \* processOnePlayer's attempt counter
  lastError,      \* processOnePlayer's lastError
  loginCtx,       \* who called loginToSocialBlade: "initial" or "relogin"
  exitCode,       \* process exit status (NULL while running)
  abortCause,     \* history: what ended the run early
  tries,          \* history: stats-page navigations started for the current item
  loginCalls,     \* history: calls of loginToSocialBlade at the start of the run, or for the current item
  res,            \* history: id -> the result the loop obtained for it
  written,        \* history: ids whose prisma.player.update was applied
  scraped,        \* processOnePlayer's `scraped`: what the page of the attempt yielded
  navSpacing,     \* history: what came last, an item's first stats-page navigation ("nav", "unspaced") or main's randomDelay ("delayed")
  delayMs,        \* history: the milliseconds of the randomDelay that main slept last (NULL once the next navigation is made)
  shown,          \* history: what the stats page loaded last for the current item shows, until main has the result
  diag,           \* history: the status of the last saveDiagnostics call for the current item ("" if none), until main has the result
  loggedIn,       \* history: a call of loginToSocialBlade has returned in this run
  loginEnd,       \* history: how the start of the loginToSocialBlade under way or just ended went ("nav_failed", "session", "no_creds", "form"), "none" once its caller has gone on
  prompt,         \* history: the operator prompt of the login under way: "none", "not_visible", "waiting", "entered"
  client,         \* the fetch client in use: "fetchTextWithRetry" or "fetchWithRetry"
  retries,        \* IG_RETRIES (from the environment) or the `retries` parameter
  fpc,            \* position of the fetch client
  fetchAttempt,   \* the client's loop variable `attempt`
  timer,          \* the abort timer `to` is armed
  conn,           \* what the server does with the request in flight
  resStatus,      \* res.status of the response whose headers arrived
  resText,        \* the body the server sends with it
  lastErr,        \* the client's lastErr / the exception it threw
  ret,            \* what the client returned
  delays,         \* history: the sleeps of the current call, in order
  nAttempts,      \* history: fetch() invocations of the current call
  n429,           \* history: responses with status 429 in the current call
  lastOutcome,    \* history: how the last attempt of the current call ended
  stage,          \* position of scrapeOne
  outRow,         \* scrapeOne's `row`: [status, error, profileUrl, followers, following, postsCount]
  profileCalls,   \* history: fetches of a profile URL started by scrapeOne
  searchEnded429, \* history: a search query ended in HTTP 429 after the retry budget
  searchReturned, \* history: the search queries of this name that returned a response
  nameIdx,        \* main's loop variable over the names (1-based)
  pacing,         \* history: what came last, a request ("paced", "unpaced") or main's sleep ("slept")
  fun,            \* which pure function is applied
  input,          \* its argument
  output          \* its result

vars == <<variant, args, now, db, db0, players, i, pc, browser, session, creds,
          ledgerExists, ledger, ledgerExists0, ledger0, calls, runs, result, attempt,
          lastError, loginCtx, exitCode, abortCause, tries,
          loginCalls, res, written, scraped, navSpacing, delayMs, shown, diag, loggedIn, loginEnd, prompt, client, retries, fpc, fetchAttempt, timer, conn,
          resStatus, resText, lastErr, ret, delays, nAttempts, n429, lastOutcome, stage, outRow,
          profileCalls, searchEnded429, searchReturned, nameIdx, pacing, fun, input, output>>

\* The variables of the fetch client and of scrapeOne.
fetchVars == <<client, retries, fpc, fetchAttempt, timer, conn, resStatus, resText, lastErr, ret,
               delays, nAttempts, n429, lastOutcome, stage, outRow, profileCalls,
               searchEnded429, searchReturned, nameIdx, pacing>>

\* The variables of the pure functions.
funVars == <<fun, input, output>>

\* The variables of a batch run of a SocialBlade scraper.
runVars == <<variant, args, now, db, db0, players, i, pc, browser, session, creds,
             ledgerExists, ledger, ledgerExists0, ledger0, calls, runs, result, attempt,
             lastError, loginCtx, exitCode, abortCause, tries, loginCalls, res, written,
             scraped, navSpacing, delayMs, shown, diag, loggedIn, loginEnd, prompt>>

\* JavaScript null / undefined for numbers and dates.
NULL == -1

-----------------------------------------------------------------------------
(* Bounds of the model *)

\* Players in the table of a batch run.
NumPlayers == 3
\* Players in the table when only the selection is computed.
SelPlayers == 2
\* appendFailedCsv calls made in a row on one ledger.
MaxAppends == 4

-----------------------------------------------------------------------------
(* Text *)

\* The characters used, in UTF-16 code-unit order.
CHARS == <<" ", "\"", "@", "A", "B", "C", "D", "E", "a", "b", "c", "d", "e">>

Code(c) == CHOOSE k \in 1..Len(CHARS) : CHARS[k] = c

RECURSIVE StrLess(_, _)
\* a < b for JavaScript strings.
StrLess(a, b) ==
  IF b = <<>> THEN FALSE
  ELSE IF a = <<>> THEN TRUE
  ELSE IF Head(a) # Head(b) THEN Code(Head(a)) < Code(Head(b))
  ELSE StrLess(Tail(a), Tail(b))

\* a >= b for JavaScript strings.
StrGeq(a, b) == ~StrLess(a, b)

ToLowerChar(c) ==
  CASE c = "A" -> "a" [] c = "B" -> "b" [] c = "C" -> "c"
    [] c = "D" -> "d" [] c = "E" -> "e" [] c = "P" -> "p" [] OTHER -> c

toLowerCase(s) == [k \in 1..Len(s) |-> ToLowerChar(s[k])]

\* The white space of the texts: a blank and a line break.
WHITESPACE == {" ", "\n"}

RECURSIVE TrimLeft(_)
TrimLeft(s) == IF s # <<>> /\ Head(s) \in WHITESPACE THEN TrimLeft(Tail(s)) ELSE s

RECURSIVE TrimRight(_)
TrimRight(s) ==
  IF s # <<>> /\ s[Len(s)] \in WHITESPACE THEN TrimRight(SubSeq(s, 1, Len(s) - 1)) ELSE s

trim(s) == TrimRight(TrimLeft(s))

\* s.replace(/^@/, "")
StripAt(s) == IF s # <<>> /\ Head(s) = "@" THEN Tail(s) ELSE s

\* (p.instagram || "").trim().replace(/^@/, "").toLowerCase()
Handle(instagram) == toLowerCase(StripAt(trim(instagram)))

RECURSIVE Concat(_)
\* The texts of a sequence, one after the other.
Concat(ss) == IF ss = <<>> THEN <<>> ELSE Head(ss) \o Concat(Tail(ss))

RECURSIVE Join(_, _)
\* Array.prototype.join
Join(ss, sep) ==
  IF ss = <<>> THEN <<>>
  ELSE IF Len(ss) = 1 THEN ss[1]
  ELSE ss[1] \o sep \o Join(Tail(ss), sep)

IsPrefix(a, b) == Len(a) <= Len(b) /\ SubSeq(b, 1, Len(a)) = a

Min(a, b) == IF a <= b THEN a ELSE b

-----------------------------------------------------------------------------
(* The failure ledger *)

HEADER == <<"name,instagram,reason,url,missing_stats", "\n">>

RECURSIVE EscapeQuotes(_)
\* String(f).replace(/"/g, '""')
EscapeQuotes(f) ==
  IF f = <<>> THEN <<>>
  ELSE (IF Head(f) = "\"" THEN <<"\"", "\"">> ELSE <<Head(f)>>) \o EscapeQuotes(Tail(f))

CsvField(f) == <<"\"">> \o EscapeQuotes(f) \o <<"\"">>

\* The row appendFailedCsv builds; missingStats is an array of labels.
CsvRow(name, instagram, reason, url, missingStats) ==
  Join(<<CsvField(name), CsvField(instagram), CsvField(reason), CsvField(url),
         CsvField(Join(missingStats, <<";", " ">>))>>, <<",">>) \o <<"\n">>

\* A mutation of FailedCsvAfter: the file is written anew on every call.
FailedCsvRewritten(exists, content, row) == HEADER \o row

\* The content of FAILED_CSV after the write of appendFailedCsv.
FailedCsvAfter(exists, content, row) ==
  IF ~exists THEN HEADER \o row ELSE content \o row

appendFailedCsv(name, instagram, reason, url, missingStats) ==
  LET row == CsvRow(name, instagram, reason, url, missingStats) IN
  /\ ledger' = FailedCsvAfter(ledgerExists, ledger, row)
  /\ ledgerExists' = TRUE
  /\ calls' = Append(calls, row)

-----------------------------------------------------------------------------
(* The work selection *)

SKIP_IF_OK_DAYS == 7

\* Names of players, ascending.
NAMES == << <<"A", "a">>, <<"B", "b">>, <<"C", "c">>, <<"D", "d">>, <<"E", "e">> >>

RECURSIVE SortByName(_, _)
SortByName(table, S) ==
  IF S = {} THEN <<>>
  ELSE LET m == CHOOSE x \in S : \A y \in S : ~StrLess(table[y].name, table[x].name)
       IN <<m>> \o SortByName(table, S \ {m})

\* prisma.player.findMany({ where: { instagram: { not: "" } }, orderBy: { name: "asc" } })
findMany(table) ==
  SortByName(table, {id \in DOMAIN table : table[id].instagram # <<>>})

\* if (args.startFrom) { idx = findIndex(name >= startFrom); if (idx >= 0) slice(idx) }
StartFromCut(table, list, startFrom) ==
  IF startFrom = <<>> THEN list
  ELSE LET hits == {k \in 1..Len(list) : StrGeq(table[list[k]].name, startFrom)} IN
       IF hits = {} THEN list
       ELSE SubSeq(list, CHOOSE k \in hits : \A j \in hits : k <= j, Len(list))

\* if (args.limit != null && args.limit > 0) players = players.slice(0, args.limit)
LimitCut(list, limit) ==
  IF limit # NULL /\ limit > 0 THEN SubSeq(list, 1, Min(limit, Len(list))) ELSE list

\* A mutation of IsStale: the status of the last attempt is not looked at.
IsStaleByAgeOnly(p, cutoff) ==
  p.igSbLastCheckedAt = NULL \/ p.igSbLastCheckedAt < cutoff

\* The predicate of the freshness filter.
IsStale(p, cutoff) ==
  \/ p.igSbLastCheckedAt = NULL
  \/ p.igSbLastCheckedAt < cutoff
  \/ (p.igSbStatus # "" /\ p.igSbStatus # "ok")

\* The predicate of the --only-missing filter.
IsMissing(p) ==
  \/ p.followers = NULL
  \/ p.posts = NULL
  \/ p.igEngagementRate = NULL
  \/ p.igAvgLikes = NULL
  \/ p.igAvgComments = NULL
  \/ p.engagementRate = NULL
  \/ p.avgLikes = NULL
  \/ p.avgComments = NULL

FreshnessFilter(table, list, force, t) ==
  IF ~force
  THEN SelectSeq(list, LAMBDA id : IsStale(table[id], t - SKIP_IF_OK_DAYS))
  ELSE list

OnlyMissingFilter(table, list, onlyMissing) ==
  IF onlyMissing THEN SelectSeq(list, LAMBDA id : IsMissing(table[id])) ELSE list

\* main, from findMany to "Players to process": the filters in the order of the code.
SelectPlayers(table, a, t) ==
  OnlyMissingFilter(table,
    FreshnessFilter(table,
      LimitCut(StartFromCut(table, findMany(table), a.startFrom), a.limit),
      a.force, t),
    a.onlyMissing)

-----------------------------------------------------------------------------
(* Rows of the Player table *)

MetricFields == {"followers", "following", "posts", "engagementRate", "avgLikes", "avgComments"}

NoMetrics ==
  [followers |-> NULL, following |-> NULL, posts |-> NULL, engagementRate |-> NULL,
   avgLikes |-> NULL, avgComments |-> NULL, igEngagementRate |-> NULL,
   igAvgLikes |-> NULL, igAvgComments |-> NULL]

AllMetrics ==
  [followers |-> 100, following |-> 10, posts |-> 5, engagementRate |-> 4,
   avgLikes |-> 20, avgComments |-> 3, igEngagementRate |-> 4,
   igAvgLikes |-> 40, igAvgComments |-> 6]

OnlyFollowingMissing == [AllMetrics EXCEPT !.following = NULL]

PlayerRow(name, instagram, metrics, checkedAt, st, updatedAt) ==
  [name |-> name, instagram |-> instagram,
   followers |-> metrics.followers, following |-> metrics.following,
   posts |-> metrics.posts, engagementRate |-> metrics.engagementRate,
   avgLikes |-> metrics.avgLikes, avgComments |-> metrics.avgComments,
   igEngagementRate |-> metrics.igEngagementRate,
   igAvgLikes |-> metrics.igAvgLikes, igAvgComments |-> metrics.igAvgComments,
   igSbLastCheckedAt |-> checkedAt, igSbStatus |-> st,
   instagramUpdatedAt |-> updatedAt]

\* What the two scripts leave in (igSbLastCheckedAt, igSbStatus), relative to
\* today t: never checked, or checked 8, 7 or 1 days ago with a status.
CheckStates(t) ==
  {<<NULL, "">>, <<t - 8, "ok">>, <<t - 7, "ok">>, <<t - 1, "ok">>,
   <<t - 1, "blocked">>, <<t - 8, "error">>}

-----------------------------------------------------------------------------
(* Values of the variables a specification does not use *)

NoResult ==
  [status |-> "", url |-> <<>>, followers |-> NULL, following |-> NULL, posts |-> NULL,
   engagementRate |-> NULL, avgLikes |-> NULL, avgComments |-> NULL,
   missing |-> <<>>, error |-> <<>>]

\* const out = { followers: null, ..., missing: [] }
NoScrape ==
  [followers |-> NULL, following |-> NULL, posts |-> NULL, engagementRate |-> NULL,
   avgLikes |-> NULL, avgComments |-> NULL, missing |-> <<>>]

\* No error: lastErr before any failure.
NoErr == [msg |-> <<>>, status |-> NULL]

\* No stats page is loaded.
NoPage == [loaded |-> FALSE, blocked |-> FALSE, notFound |-> FALSE]

\* What a loaded stats page shows: bot-challenge wording, not-found wording.
Shown(pg) == [loaded |-> TRUE, blocked |-> pg.blocked, notFound |-> pg.notFound]

\* A page with nothing in it.
NoBody == [meta |-> FALSE, content |-> <<>>, hrefs |-> <<>>]

\* No value returned.
NoRet == [status |-> NULL, text |-> NoBody]

NoRow ==
  [status |-> "", error |-> <<>>, profileUrl |-> [host |-> <<>>, segs |-> <<>>],
   followers |-> <<>>, following |-> <<>>, postsCount |-> <<>>]

FetchIdle ==
  /\ client = "fetchTextWithRetry"
  /\ retries = 1
  /\ fpc = "idle"
  /\ fetchAttempt = 0
  /\ timer = FALSE
  /\ conn = "none"
  /\ resStatus = NULL
  /\ resText = NoBody
  /\ lastErr = NoErr
  /\ ret = NoRet
  /\ delays = <<>>
  /\ nAttempts = 0
  /\ n429 = 0
  /\ lastOutcome = "none"
  /\ stage = "none"
  /\ outRow = NoRow
  /\ profileCalls = 0
  /\ searchEnded429 = FALSE
  /\ searchReturned = 0
  /\ nameIdx = 1
  /\ pacing = "none"

FunIdle ==
  /\ fun = "none"
  /\ input = <<>>
  /\ output = <<>>

RunIdle ==
  /\ FetchIdle
  /\ FunIdle
  /\ i = 1
  /\ browser = "none"
  /\ result = NoResult
  /\ attempt = 0
  /\ lastError = <<>>
  /\ loginCtx = "initial"
  /\ exitCode = NULL
  /\ abortCause = "none"
  /\ tries = 0
  /\ loginCalls = 0
  /\ written = {}
  /\ scraped = NoScrape
  /\ shown = NoPage
  /\ diag = ""
  /\ prompt = "none"
  /\ loggedIn = FALSE
  /\ loginEnd = "none"
  /\ navSpacing = "none"
  /\ delayMs = NULL

\* No run is inside appendFailedCsv.
NoRuns == <<>>

LedgerAtStart ==
  /\ ledgerExists0 = ledgerExists
  /\ ledger0 = ledger
  /\ calls = <<>>
  /\ runs = NoRuns

-----------------------------------------------------------------------------
(* SpecSelect: the selection of main, over every small table and argument list *)

SelectArgs ==
  [force : BOOLEAN, onlyMissing : BOOLEAN,
   startFrom : {<<>>, NAMES[1], NAMES[2], <<"B">>, <<"e">>},
   limit : {NULL, 1, 2}]

SelectTables(t) ==
  LET opts == CheckStates(t) \X {NoMetrics, AllMetrics, OnlyFollowingMissing} IN
  {[k \in 1..SelPlayers |->
      PlayerRow(NAMES[k], <<"a">>, g[k][2], g[k][1][1], g[k][1][2],
                IF g[k][2] = NoMetrics THEN NULL ELSE t - 8)] :
     g \in [1..SelPlayers -> opts]}

InitSelect ==
  /\ variant = "playwright"
  /\ now = 20
  /\ args \in SelectArgs
  /\ db \in SelectTables(now)
  /\ db0 = db
  /\ players = <<>>
  /\ pc = "start"
  /\ ledgerExists = FALSE
  /\ ledger = <<>>
  /\ LedgerAtStart
  /\ res = [id \in DOMAIN db |-> NoResult]
  /\ RunIdle
  /\ session = FALSE
  /\ creds = FALSE

\* main, lines 607-658: parseArgs, findMany and the filters.
Main_Select ==
  /\ pc = "start"
  /\ players' = SelectPlayers(db, args, now)
  /\ pc' = "launch"
  /\ UNCHANGED <<variant, args, now, db, db0, i, browser, session, creds,
                 ledgerExists, ledger, ledgerExists0, ledger0, calls, runs, result,
                 attempt, lastError, loginCtx, exitCode, abortCause, tries, loginCalls, res, written,
                 scraped, navSpacing, delayMs, shown, diag, loggedIn, loginEnd, prompt, fetchVars, funVars>>

NextSelect == Main_Select

SpecSelect == InitSelect /\ [][NextSelect]_vars

-----------------------------------------------------------------------------
(* SpecLedger: appendFailedCsv called again and again on one ledger *)

STAT_LABELS ==
  << <<"Followers">>, <<"Following">>, <<"Media Count">>, <<"Uploads">>,
     <<"Engagement Rate">>, <<"Average Likes">>, <<"Average Comments">> >>

EncodeChar(c) ==
  CASE c = " " -> <<"%", "2", "0">>
    [] c = "\"" -> <<"%", "2", "2">>
    [] c = "@" -> <<"%", "4", "0">>
    [] OTHER -> <<c>>

\* encodeURIComponent
encodeURIComponent(s) == Concat([k \in 1..Len(s) |-> EncodeChar(s[k])])

StatsUrl(handle) ==
  <<"https://socialblade.com/instagram/user/">> \o encodeURIComponent(handle)

\* Arguments of appendFailedCsv calls: a plain one, one with a quote in the
\* name and no handle, one with the missing labels.
AppendArgs ==
  {<<NAMES[1], <<"a">>, <<"not_found">>, StatsUrl(<<"a">>), <<>>>>,
   <<<<"A", "\"", "b">>, <<>>, <<"empty_handle">>, <<>>, <<>>>>,
   <<NAMES[2], <<"b", " ">>, <<"no_stats">>, StatsUrl(<<"b", " ">>), STAT_LABELS>>}

InitLedger ==
  /\ variant \in {"playwright", "selenium"}
  /\ now = 20
  /\ args = [force |-> FALSE, onlyMissing |-> FALSE, startFrom |-> <<>>, limit |-> NULL]
  /\ db = <<>>
  /\ db0 = db
  /\ players = <<>>
  /\ pc = "ledger"
  /\ ledgerExists \in BOOLEAN
  /\ ledger = IF ledgerExists
              THEN HEADER \o CsvRow(NAMES[3], <<"c">>, <<"blocked">>, StatsUrl(<<"c">>), <<>>)
              ELSE <<>>
  /\ LedgerAtStart
  /\ res = <<>>
  /\ RunIdle
  /\ session = FALSE
  /\ creds = FALSE

AppendCall ==
  /\ pc = "ledger"
  /\ Len(calls) < MaxAppends
  /\ \E a \in AppendArgs : appendFailedCsv(a[1], a[2], a[3], a[4], a[5])
  /\ UNCHANGED <<variant, args, now, db, db0, players, i, pc, browser, session,
                 creds, ledgerExists0, ledger0, runs, result, attempt, lastError,
                 loginCtx, exitCode, abortCause, tries, loginCalls,
                 res, written, scraped, navSpacing, delayMs, shown, diag, loggedIn, loginEnd, prompt, fetchVars, funVars>>

NextLedger == AppendCall

SpecLedger == InitLedger /\ [][NextLedger]_vars

-----------------------------------------------------------------------------
(* Pages and the DOM scrape *)

MAX_RETRIES == 2

MIN_DELAY_MS == 4000

MAX_DELAY_MS == 8000

\* What Math.random() returns, in thousandths.
RANDOMS == {0, 500, 999}

\* A mutation of randomDelayMs: the window begins at 0.
randomDelayMsFromZero(r) == (r * MAX_DELAY_MS) \div 1000

\* MIN_DELAY_MS + Math.random() * (MAX_DELAY_MS - MIN_DELAY_MS)
randomDelayMs(r) == MIN_DELAY_MS + (r * (MAX_DELAY_MS - MIN_DELAY_MS)) \div 1000

\* The first navigation to the stats page of an item is noted.
FirstNav == navSpacing' = IF navSpacing \in {"nav", "unspaced"} THEN "unspaced" ELSE "nav"

\* The numbers a stats page shows beside the labels (NULL: none beside it).
Stats(followers, following, mediaCount, uploads, engagementRate, avgLikes, avgComments) ==
  [Followers |-> followers, Following |-> following, MediaCount |-> mediaCount,
   Uploads |-> uploads, EngagementRate |-> engagementRate,
   AverageLikes |-> avgLikes, AverageComments |-> avgComments]

Page(blocked, notFound, stats) == [blocked |-> blocked, notFound |-> notFound, stats |-> stats]

NoStats == Stats(NULL, NULL, NULL, NULL, NULL, NULL, NULL)

\* The pages a navigation may load: two with stats, one without any, a
\* not-found page, a bot challenge, and a bot challenge that also says 404.
Pages ==
  {Page(FALSE, FALSE, Stats(5000, NULL, NULL, NULL, NULL, NULL, NULL)),
   Page(FALSE, FALSE, Stats(NULL, 8, NULL, 11, 5, 3, 4)),
   Page(FALSE, FALSE, NoStats),
   Page(FALSE, TRUE, NoStats),
   Page(TRUE, FALSE, NoStats),
   Page(TRUE, TRUE, NoStats)}

\* What a navigation and the reads after it may end in: the login page, an
\* exception, or a loaded page.
Outcome(kind, pg) == [kind |-> kind, page |-> pg]

Outcomes(kinds) ==
  {Outcome(k, Page(FALSE, FALSE, NoStats)) : k \in kinds}
    \cup {Outcome("page", pg) : pg \in Pages}

LabelKey(label) ==
  CASE label = <<"Followers">> -> "followers"
    [] label = <<"Following">> -> "following"
    [] label = <<"Media Count">> -> "posts"
    [] label = <<"Uploads">> -> "posts"
    [] label = <<"Engagement Rate">> -> "engagementRate"
    [] label = <<"Average Likes">> -> "avgLikes"
    [] label = <<"Average Comments">> -> "avgComments"

\* What parse(blockText) yields for a label on a page.
LabelValue(stats, label) ==
  CASE label = <<"Followers">> -> stats.Followers
    [] label = <<"Following">> -> stats.Following
    [] label = <<"Media Count">> -> stats.MediaCount
    [] label = <<"Uploads">> -> stats.Uploads
    [] label = <<"Engagement Rate">> -> stats.EngagementRate
    [] label = <<"Average Likes">> -> stats.AverageLikes
    [] label = <<"Average Comments">> -> stats.AverageComments

RECURSIVE ScrapeLabels(_, _, _)
\* for (const label of STAT_LABELS) { ... }
ScrapeLabels(stats, k, out) ==
  IF k > Len(STAT_LABELS) THEN out
  ELSE LET label == STAT_LABELS[k]
           key == LabelKey(label)
           val == LabelValue(stats, label)
       IN IF key = "posts" /\ out.posts # NULL THEN ScrapeLabels(stats, k + 1, out)
          ELSE IF val # NULL THEN ScrapeLabels(stats, k + 1, [out EXCEPT ![key] = val])
          ELSE ScrapeLabels(stats, k + 1, [out EXCEPT !.missing = Append(@, label)])

\* A mutation of scrapeSocialBladeStatsDom: a label without a value is not noted as missing.
scrapeSocialBladeStatsDomSilent(pg) ==
  [ScrapeLabels(pg.stats, 1, NoScrape) EXCEPT !.missing = <<>>]

\* The timeout of the first wait gives the same `out` as a page without any label.
scrapeSocialBladeStatsDom(pg) == ScrapeLabels(pg.stats, 1, NoScrape)

HasAny(out) ==
  \/ out.followers # NULL
  \/ out.following # NULL
  \/ out.posts # NULL
  \/ out.engagementRate # NULL
  \/ out.avgLikes # NULL
  \/ out.avgComments # NULL

Result(st, url, out, error) ==
  [status |-> st, url |-> url, followers |-> out.followers, following |-> out.following,
   posts |-> out.posts, engagementRate |-> out.engagementRate,
   avgLikes |-> out.avgLikes, avgComments |-> out.avgComments,
   missing |-> out.missing, error |-> error]

\* { status: "error", url, followers: null, ..., missing: [], error }
ErrorResult(url, error) == Result("error", url, NoScrape, error)

\* scrapePlayer once the page is loaded and is not the login page.
scrapePlayer(handle, pg) ==
  LET url == StatsUrl(handle)
      out == scrapeSocialBladeStatsDom(pg)
  IN IF pg.notFound THEN Result("not_found", url, NoScrape, <<>>)
     ELSE Result(IF HasAny(out) THEN "ok" ELSE "error", url, out, <<>>)

\* Math.round of a value carried in halves.
Round(h) == (h + 1) \div 2

\* A mutation of MergedRow: every scraped field is stored, null or not, whatever the status.
MergedRowNulling(row, r, t) ==
  [row EXCEPT !.igSbLastCheckedAt = t, !.igSbStatus = r.status,
              !.followers = r.followers, !.following = r.following, !.posts = r.posts,
              !.engagementRate = r.engagementRate,
              !.avgLikes = IF r.avgLikes # NULL THEN Round(r.avgLikes) ELSE NULL,
              !.avgComments = IF r.avgComments # NULL THEN Round(r.avgComments) ELSE NULL]

\* The row after prisma.player.update({ where: { id }, data }).
MergedRow(row, r, t) ==
  LET ok == r.status = "ok"
      Pick(new, old) == IF ok /\ new # NULL THEN new ELSE old
  IN [row EXCEPT
        !.igSbLastCheckedAt = t,
        !.igSbStatus = r.status,
        !.followers = Pick(r.followers, @),
        !.following = Pick(r.following, @),
        !.posts = Pick(r.posts, @),
        !.engagementRate = Pick(r.engagementRate, @),
        !.igEngagementRate = Pick(r.engagementRate, @),
        !.avgLikes = IF ok /\ r.avgLikes # NULL THEN Round(r.avgLikes) ELSE @,
        !.igAvgLikes = Pick(r.avgLikes, @),
        !.avgComments = IF ok /\ r.avgComments # NULL THEN Round(r.avgComments) ELSE @,
        !.igAvgComments = Pick(r.avgComments, @),
        !.instagramUpdatedAt = IF ok /\ HasAny(r) THEN t ELSE @]

-----------------------------------------------------------------------------
(* Spec: one batch run of a SocialBlade scraper *)

\* What a run never changes.
fixedCfg == <<variant, args, now, db0, creds, ledgerExists0, ledger0, runs, fetchVars, funVars>>

\* What only the navigations of the items and main's delays change, too.
runCfg == <<fixedCfg, navSpacing, delayMs>>

\* What only processOnePlayer's attempts change, too.
attemptCfg == <<runCfg, scraped, shown, diag>>

\* What only the attempts and the return of a login change, too.
itemCfg == <<attemptCfg, loggedIn>>

\* What only the attempts and the logins change, too.
cfg == <<itemCfg, prompt, loginEnd>>

RunRow(k, t, emptyHandle) ==
  LET m == ((k - 1) % 3) + 1 IN
  PlayerRow(NAMES[k],
            IF m = 2 /\ emptyHandle THEN <<" ", "@">>
            ELSE IF m = 1 THEN <<"@", "A", "a">> ELSE <<ToLowerChar(NAMES[k][1])>>,
            IF m = 1 THEN NoMetrics ELSE IF m = 2 THEN AllMetrics ELSE OnlyFollowingMissing,
            IF m = 1 THEN NULL ELSE IF m = 2 THEN t - 8 ELSE t - 1,
            IF m = 1 THEN "" ELSE IF m = 2 THEN "ok" ELSE "blocked",
            IF m = 1 THEN NULL ELSE t - 8)

\* The tables of a run: every handle usable, or the second player's handle
\* holding nothing but a blank and an @.
RunTables(t) == {[k \in 1..NumPlayers |-> RunRow(k, t, e)] : e \in BOOLEAN}

RunArgs ==
  {[force |-> FALSE, onlyMissing |-> FALSE, startFrom |-> <<>>, limit |-> NULL],
   [force |-> TRUE, onlyMissing |-> FALSE, startFrom |-> NAMES[2], limit |-> NULL]}

Init ==
  /\ variant \in {"playwright", "selenium"}
  /\ now = 20
  /\ args \in RunArgs
  /\ db \in RunTables(now)
  /\ db0 = db
  /\ players = <<>>
  /\ pc = "start"
  /\ ledgerExists \in BOOLEAN
  /\ ledger = IF ledgerExists
              THEN HEADER \o CsvRow(NAMES[3], <<"c">>, <<"blocked">>, StatsUrl(<<"c">>), <<>>)
              ELSE <<>>
  /\ LedgerAtStart
  /\ res = [id \in DOMAIN db |-> NoResult]
  /\ RunIdle
  /\ session \in BOOLEAN
  /\ creds \in BOOLEAN


\* An exception leaving main: the finally block closes the browser when the
\* throw is inside the try, then main().catch logs and calls process.exit(1).
Abort(cause, inTry) ==
  /\ pc' = "exit"
  /\ exitCode' = 1
  /\ abortCause' = cause
  /\ browser' = IF inTry THEN "closed" ELSE browser

Goto(p) ==
  /\ pc' = p
  /\ UNCHANGED <<browser, exitCode, abortCause>>

\* A mutation of CreateBrowser: the loop over the players starts without the login.
CreateBrowserSkipsLogin ==
  /\ pc = "launch"
  /\ browser' = "open"
  /\ pc' = "loop"
  /\ loginCtx' = "initial"
  /\ UNCHANGED <<cfg, db, players, i, session, ledgerExists, ledger, calls, result,
                 attempt, lastError, tries, loginCalls, res, written, exitCode, abortCause>>

\* createBrowser / createDriver, called before the try block.
CreateBrowser ==
  /\ pc = "launch"
  /\ \E launched \in BOOLEAN :
       IF launched
       THEN /\ browser' = "open"
            /\ pc' = "login"
            /\ UNCHANGED <<exitCode, abortCause>>
       ELSE Abort("launch", FALSE)
  /\ loginCtx' = "initial"
  /\ UNCHANGED <<cfg, db, players, i, session, ledgerExists, ledger, calls, result,
                 attempt, lastError, tries, loginCalls, res, written>>

\* A mutation of LoginThrows: the failure is noted and the run goes on.
LoginThrowsAndGoesOn(msg) ==
  /\ pc' = "loop"
  /\ abortCause' = "auth"
  /\ UNCHANGED <<browser, exitCode, lastError, loggedIn>>

\* loginToSocialBlade throws.  The Playwright main calls it inside its try, at
\* the start and from the catch of a scrape; the Selenium main calls it before
\* its try, and processOnePlayer calls it inside the try of an attempt.
LoginThrows(msg) ==
  IF variant = "selenium" /\ loginCtx = "relogin"
  THEN /\ lastError' = msg
       /\ Goto("sel_retry")
       /\ UNCHANGED loggedIn
  ELSE /\ Abort("auth", variant = "playwright")
       /\ UNCHANGED <<lastError, loggedIn>>

\* loginToSocialBlade returns.
LoginReturns ==
  /\ Goto(IF loginCtx = "initial" THEN "loop"
          ELSE IF variant = "playwright" THEN "pw_retry" ELSE "sel_renav")
  /\ loggedIn' = TRUE
  /\ UNCHANGED lastError

\* A mutation of LoginStart: the credentials are read and checked before the
\* page is looked at for the marks of a session.
LoginStartCredsFirst ==
  /\ pc = "login"
  /\ loginCalls' = loginCalls + 1
  /\ \E navOk \in (IF variant = "selenium" THEN BOOLEAN ELSE {TRUE}) :
       IF ~navOk THEN LoginThrows(<<"login failed">>) /\ loginEnd' = "nav_failed"
       ELSE IF ~creds THEN LoginThrows(<<"login failed">>) /\ loginEnd' = "no_creds"
       ELSE IF session THEN LoginReturns /\ loginEnd' = "session"
       ELSE /\ Goto("login_form")
            /\ loginEnd' = "form"
            /\ UNCHANGED <<lastError, loggedIn>>
  /\ UNCHANGED <<attemptCfg, prompt, db, players, i, session, ledgerExists, ledger, calls, result,
                 attempt, loginCtx, tries, res, written>>

\* loginToSocialBlade up to the check of the credentials.
LoginStart ==
  /\ pc = "login"
  /\ loginCalls' = loginCalls + 1
  /\ \E navOk \in (IF variant = "selenium" THEN BOOLEAN ELSE {TRUE}) :
       IF ~navOk THEN LoginThrows(<<"login failed">>) /\ loginEnd' = "nav_failed"
       ELSE IF session THEN LoginReturns /\ loginEnd' = "session"
       ELSE IF ~creds THEN LoginThrows(<<"login failed">>) /\ loginEnd' = "no_creds"
       ELSE /\ Goto("login_form")
            /\ loginEnd' = "form"
            /\ UNCHANGED <<lastError, loggedIn>>
  /\ UNCHANGED <<attemptCfg, prompt, db, players, i, session, ledgerExists, ledger, calls, result,
                 attempt, loginCtx, tries, res, written>>

\* A mutation of PromptShown: the operator is never asked.
PromptShownNever(visible) == FALSE

\* Whether waitForEnter is called before the submit: always in the Playwright
\* scraper, `if (loginFormStillVisible)` in the Selenium scraper.
PromptShown(visible) == variant = "playwright" \/ visible

\* loginToSocialBlade: the login page, its fields, the credentials typed in.
LoginForm ==
  /\ pc = "login_form"
  /\ \E navOk \in (IF variant = "selenium" THEN BOOLEAN ELSE {TRUE}),
        fields \in BOOLEAN,
        visible \in (IF variant = "selenium" THEN BOOLEAN ELSE {TRUE}) :
       IF ~navOk THEN LoginThrows(<<"login failed">>) /\ UNCHANGED prompt
       ELSE IF ~fields THEN LoginThrows(<<"login failed">>) /\ UNCHANGED prompt
       ELSE /\ Goto(IF PromptShown(visible) THEN "await_enter" ELSE "login_submit")
            /\ prompt' = IF visible THEN "waiting" ELSE "not_visible"
            /\ UNCHANGED <<lastError, loggedIn>>
  /\ UNCHANGED <<attemptCfg, loginEnd, db, players, i, session, ledgerExists, ledger, calls, result,
                 attempt, loginCtx, tries, loginCalls, res, written>>

\* waitForEnter resolves: the operator has pressed Enter.
OperatorEnter ==
  /\ pc = "await_enter"
  /\ Goto("login_submit")
  /\ prompt' = "entered"
  /\ UNCHANGED <<itemCfg, loginEnd, db, players, i, session, ledgerExists, ledger, calls, result,
                 attempt, lastError, loginCtx, tries, loginCalls, res, written>>

\* loginToSocialBlade: the submit button and the URL after the submit.
LoginSubmit ==
  /\ pc = "login_submit"
  /\ \E outcome \in {"no_button", "still_on_login", "left_login"} :
       IF outcome = "no_button"
       THEN LoginThrows(<<"login failed">>) /\ UNCHANGED session
       ELSE IF outcome = "still_on_login"
       THEN LoginThrows(<<"login failed">>) /\ UNCHANGED session
       ELSE LoginReturns /\ session' = TRUE
  /\ prompt' = "none"
  /\ UNCHANGED <<attemptCfg, loginEnd, db, players, i, ledgerExists, ledger, calls, result,
                 attempt, loginCtx, tries, loginCalls, res, written>>


\* The player of the current iteration, as main read it with findMany.
CurId == players[i]
CurP == db0[CurId]
CurHandle == Handle(CurP.instagram)

\* The loop has run out of players: finally closes the browser, main resolves.
LoopEnd ==
  /\ pc = "loop"
  /\ i > Len(players)
  /\ browser' = "closed"
  /\ pc' = "exit"
  /\ exitCode' = 0
  /\ UNCHANGED <<cfg, db, players, i, session, ledgerExists, ledger, calls, result,
                 attempt, lastError, loginCtx, abortCause, tries,
                 loginCalls, res, written>>

\* Playwright main, head of an iteration: an empty handle gets a ledger row
\* and `continue`; any other handle is scraped.
PwItem ==
  /\ pc = "loop"
  /\ variant = "playwright"
  /\ i <= Len(players)
  /\ loginCalls' = 0
  /\ tries' = 0
  /\ IF CurHandle = <<>>
     THEN \E fsOk \in BOOLEAN :
            /\ res' = [res EXCEPT ![CurId] = ErrorResult(<<>>, <<"empty_handle">>)]
            /\ IF fsOk
               THEN /\ appendFailedCsv(CurP.name, CurP.instagram, <<"empty_handle">>, <<>>, <<>>)
                    /\ i' = i + 1
                    /\ Goto("loop")
               ELSE /\ Abort("ledger", TRUE)
                    /\ UNCHANGED <<i, ledgerExists, ledger, calls>>
     ELSE /\ Goto("pw_scrape")
          /\ UNCHANGED <<i, ledgerExists, ledger, calls, res>>
  /\ loginEnd' = "none"
  /\ UNCHANGED <<itemCfg, prompt, db, players, session, result, attempt, lastError, loginCtx,
                 written>>

\* Playwright main: the first scrapePlayer of the item and its catch.
PwScrape ==
  /\ pc = "pw_scrape"
  /\ tries' = tries + 1
  /\ \E o \in Outcomes({"login", "throw"}) :
       /\ IF o.kind = "login"
          THEN /\ session' = FALSE
               /\ loginCtx' = "relogin"
               /\ Goto("login")
               /\ UNCHANGED result
          ELSE /\ result' = IF o.kind = "throw"
                            THEN ErrorResult(StatsUrl(CurHandle), <<"exception">>)
                            ELSE scrapePlayer(CurHandle, o.page)
               /\ Goto("record")
               /\ UNCHANGED <<session, loginCtx>>
       /\ shown' = IF o.kind = "page" THEN Shown(o.page) ELSE NoPage
  /\ FirstNav
  /\ delayMs' = NULL
  /\ UNCHANGED <<fixedCfg, scraped, diag, loggedIn, loginEnd, prompt, db, players, i, ledgerExists, ledger, calls, attempt,
                 lastError, loginCalls, res, written>>

\* Playwright main: the second scrapePlayer, after the re-login.
PwRetry ==
  /\ pc = "pw_retry"
  /\ tries' = tries + 1
  /\ \E o \in Outcomes({"login", "throw"}) :
       /\ result' = IF o.kind = "login"
                    THEN ErrorResult(StatsUrl(CurHandle), <<"session_expired">>)
                    ELSE IF o.kind = "throw"
                    THEN ErrorResult(StatsUrl(CurHandle), <<"exception">>)
                    ELSE scrapePlayer(CurHandle, o.page)
       /\ session' = IF o.kind = "login" THEN FALSE ELSE session
       /\ shown' = IF o.kind = "page" THEN Shown(o.page) ELSE NoPage
  /\ Goto("record")
  /\ loginEnd' = "none"
  /\ UNCHANGED <<runCfg, scraped, diag, loggedIn, prompt, db, players, i, ledgerExists, ledger, calls, attempt,
                 lastError, loginCtx, loginCalls, res, written>>

\* Selenium main, head of an iteration, and the head of processOnePlayer.
SelItem ==
  /\ pc = "loop"
  /\ variant = "selenium"
  /\ i <= Len(players)
  /\ loginCalls' = 0
  /\ tries' = 0
  /\ attempt' = 0
  /\ lastError' = <<>>
  /\ IF CurHandle = <<>>
     THEN /\ result' = ErrorResult(<<>>, <<"empty_handle">>)
          /\ Goto("record")
     ELSE /\ Goto("sel_nav")
          /\ UNCHANGED result
  /\ loginEnd' = "none"
  /\ UNCHANGED <<itemCfg, prompt, db, players, i, session, ledgerExists, ledger, calls,
                 loginCtx, res, written>>

\* processOnePlayer: driver.get(url) of an attempt and the check of the URL.
SelNav ==
  /\ pc = "sel_nav"
  /\ tries' = tries + 1
  /\ \E o \in {"throw", "login", "loaded"} :
       IF o = "throw"
       THEN /\ lastError' = <<"exception">>
            /\ Goto("sel_retry")
            /\ UNCHANGED <<session, loginCtx>>
       ELSE IF o = "login"
       THEN /\ session' = FALSE
            /\ loginCtx' = "relogin"
            /\ Goto("login")
            /\ UNCHANGED lastError
       ELSE /\ Goto("sel_page")
            /\ UNCHANGED <<session, loginCtx, lastError>>
  /\ IF tries = 0 THEN FirstNav ELSE UNCHANGED navSpacing
  /\ delayMs' = NULL
  /\ shown' = NoPage
  /\ UNCHANGED <<fixedCfg, scraped, diag, loggedIn, loginEnd, prompt, db, players, i, ledgerExists, ledger, calls, result,
                 attempt, loginCalls, res, written>>

\* processOnePlayer: driver.get(url) again after the re-login.
SelRenav ==
  /\ pc = "sel_renav"
  /\ \E o \in {"throw", "loaded"} :
       IF o = "throw"
       THEN /\ lastError' = <<"exception">>
            /\ Goto("sel_retry")
       ELSE /\ Goto("sel_page")
            /\ UNCHANGED lastError
  /\ loginEnd' = "none"
  /\ UNCHANGED <<itemCfg, prompt, db, players, i, session, ledgerExists, ledger, calls, result,
                 attempt, loginCtx, tries, loginCalls, res, written>>

\* Stricter: only Cloudflare/verify/captcha indicators in title or body.
isBlocked(pg) == pg.blocked

\* saveDiagnostics(driver, handle, status): the debug directory is made outside
\* the try, so a failure of mkdirSync is thrown to the caller; a failure of the
\* screenshot, of the page source or of a file write is caught and logged.
saveDiagnostics(status) == diag' = status

\* processOnePlayer: the page of an attempt is read and classified.
SelPage ==
  /\ pc = "sel_page"
  /\ \E o \in Outcomes({"throw"}), dirOk \in BOOLEAN :
       /\ IF o.kind = "throw"
          THEN /\ lastError' = <<"exception">>
               /\ Goto("sel_retry")
               /\ UNCHANGED <<result, scraped, diag>>
          ELSE IF isBlocked(o.page)
          THEN /\ saveDiagnostics("blocked")
               /\ IF dirOk
                  THEN /\ result' = [ErrorResult(StatsUrl(CurHandle), <<"blocked">>)
                                      EXCEPT !.status = "blocked"]
                       /\ Goto("record")
                       /\ UNCHANGED lastError
                  ELSE /\ lastError' = <<"exception">>
                       /\ Goto("sel_retry")
                       /\ UNCHANGED result
               /\ UNCHANGED scraped
          ELSE IF o.page.notFound
          THEN /\ saveDiagnostics("not_found")
               /\ IF dirOk
                  THEN /\ result' = [ErrorResult(StatsUrl(CurHandle), <<"not_found">>)
                                      EXCEPT !.status = "not_found"]
                       /\ Goto("record")
                       /\ UNCHANGED lastError
                  ELSE /\ lastError' = <<"exception">>
                       /\ Goto("sel_retry")
                       /\ UNCHANGED result
               /\ UNCHANGED scraped
          ELSE /\ scraped' = scrapeSocialBladeStatsDom(o.page)
               /\ IF HasAny(scraped') \/ Len(scraped'.missing) < Len(STAT_LABELS)
                  THEN /\ result' = Result("ok", StatsUrl(CurHandle), scraped', <<>>)
                       /\ Goto("record")
                       /\ UNCHANGED lastError
                  ELSE /\ lastError' = <<"no_stats">>
                       /\ Goto("sel_retry")
                       /\ UNCHANGED result
               /\ UNCHANGED diag
       /\ shown' = IF o.kind = "page" THEN Shown(o.page) ELSE NoPage
  /\ UNCHANGED <<runCfg, loggedIn, loginEnd, prompt, db, players, i, session, ledgerExists, ledger, calls, attempt,
                 loginCtx, tries, loginCalls, res, written>>

\* processOnePlayer: the end of an attempt that did not return: the capture of
\* the catch block if the attempt threw, then the delay before the next attempt
\* or, after the last one, the capture and the error result.
SelRetry ==
  /\ pc = "sel_retry"
  /\ IF attempt < MAX_RETRIES
     THEN /\ attempt' = attempt + 1
          /\ Goto("sel_nav")
          /\ UNCHANGED result
     ELSE /\ result' = ErrorResult(StatsUrl(CurHandle), lastError)
          /\ Goto("record")
          /\ UNCHANGED attempt
  /\ IF lastError # <<"no_stats">> \/ attempt >= MAX_RETRIES
     THEN saveDiagnostics("error")
     ELSE UNCHANGED diag
  /\ scraped' = NoScrape
  /\ loginEnd' = "none"
  /\ UNCHANGED <<runCfg, shown, loggedIn, prompt, db, players, i, session, ledgerExists, ledger, calls,
                 lastError, loginCtx, tries, loginCalls, res, written>>

\* result.error || status
Reason(r) == IF r.error # <<>> THEN r.error ELSE <<r.status>>

\* A mutation of NeedsLedgerRow: every item is written to the ledger.
NeedsLedgerRowAlways(r) == TRUE

\* if (status !== "ok") appendFailedCsv(...)
NeedsLedgerRow(r) == r.status # "ok"

\* main: the result is in; a status other than ok gets its ledger row.
Record ==
  /\ pc = "record"
  /\ res' = [res EXCEPT ![CurId] = result]
  /\ IF NeedsLedgerRow(result)
     THEN \E fsOk \in BOOLEAN :
            IF fsOk
            THEN /\ appendFailedCsv(CurP.name, CurHandle, Reason(result), result.url,
                                    IF variant = "playwright" THEN result.missing ELSE <<>>)
                 /\ Goto("update")
            ELSE /\ Abort("ledger", TRUE)
                 /\ UNCHANGED <<ledgerExists, ledger, calls>>
     ELSE /\ Goto("update")
          /\ UNCHANGED <<ledgerExists, ledger, calls>>
  /\ shown' = NoPage
  /\ diag' = ""
  /\ UNCHANGED <<runCfg, scraped, loggedIn, loginEnd, prompt, db, players, i, session, result,
                 attempt, lastError, loginCtx, tries, loginCalls, written>>

\* A mutation of Update: the update is started and not awaited, and the loop goes on.
UpdateDetached ==
  /\ pc = "update"
  /\ Goto("delay")
  /\ UNCHANGED <<cfg, db, players, i, session, ledgerExists, ledger, calls, result,
                 attempt, lastError, loginCtx, tries, loginCalls, res, written>>

\* main: prisma.player.update of the item.
Update ==
  /\ pc = "update"
  /\ \E dbOk \in BOOLEAN :
       IF dbOk
       THEN /\ db' = [db EXCEPT ![CurId] = MergedRow(@, result, now)]
            /\ written' = written \cup {CurId}
            /\ Goto("delay")
       ELSE /\ Abort("db", TRUE)
            /\ UNCHANGED <<db, written>>
  /\ UNCHANGED <<cfg, players, i, session, ledgerExists, ledger, calls, result,
                 attempt, lastError, loginCtx, tries, loginCalls, res>>

\* main: randomDelay, then the next iteration; the locals of the iteration are gone.
RandomDelay ==
  /\ pc = "delay"
  /\ i' = i + 1
  /\ Goto("loop")
  /\ result' = NoResult
  /\ attempt' = 0
  /\ lastError' = <<>>
  /\ tries' = 0
  /\ loginCalls' = 0
  /\ scraped' = NoScrape
  /\ shown' = NoPage
  /\ diag' = ""
  /\ navSpacing' = "delayed"
  /\ \E r \in RANDOMS : delayMs' = randomDelayMs(r)
  /\ UNCHANGED <<fixedCfg, loggedIn, loginEnd, prompt, db, players, session, ledgerExists, ledger, calls, loginCtx,
                 res, written>>

Next ==
  \/ Main_Select
  \/ CreateBrowser
  \/ LoginStart
  \/ LoginForm
  \/ OperatorEnter
  \/ LoginSubmit
  \/ LoopEnd
  \/ PwItem
  \/ PwScrape
  \/ PwRetry
  \/ SelItem
  \/ SelNav
  \/ SelRenav
  \/ SelPage
  \/ SelRetry
  \/ Record
  \/ Update
  \/ RandomDelay

Spec == Init /\ [][Next]_vars

-----------------------------------------------------------------------------
(* The count parsers *)

\* Longest length of the enumerated count strings.
MaxLen == 3

DIGITS == <<"0", "1", "2", "3", "4", "5", "6", "7", "8", "9">>

IsDigit(c) == \E k \in 1..10 : DIGITS[k] = c

DigitValue(c) == (CHOOSE k \in 1..10 : DIGITS[k] = c) - 1

\* s.replace(/<any of cs>/g, "")
RemoveChars(s, cs) == SelectSeq(s, LAMBDA c : c \notin cs)

\* Length of the longest prefix of s made of characters that satisfy Ok.
PrefixLen(s, Ok(_)) ==
  LET bad == {k \in 1..Len(s) : ~Ok(s[k])} IN
  IF bad = {} THEN Len(s) ELSE (CHOOSE k \in bad : \A j \in bad : k <= j) - 1

Drop(s, n) == SubSeq(s, n + 1, Len(s))

IsNumChar(c) == IsDigit(c) \/ c = "."

IsSpace(c) == c \in WHITESPACE

RECURSIVE DigitsValue(_)
DigitsValue(ds) ==
  IF ds = <<>> THEN 0 ELSE 10 * DigitsValue(SubSeq(ds, 1, Len(ds) - 1)) + DigitValue(ds[Len(ds)])

NoMatch == [ok |-> FALSE, num |-> <<>>, suffix |-> ""]

\* t.match(/^([\d.]+)\s*([KMB])?$/i): no match, or the groups num and suffix.
CountMatch(t) ==
  LET n == PrefixLen(t, IsNumChar)
      rest == Drop(t, n)
      afterSpace == Drop(rest, PrefixLen(rest, IsSpace))
  IN IF n = 0 THEN NoMatch
     ELSE IF afterSpace = <<>> THEN [ok |-> TRUE, num |-> SubSeq(t, 1, n), suffix |-> ""]
     ELSE IF Len(afterSpace) = 1 /\ afterSpace[1] \in {"K", "M", "B", "k", "m", "b"}
          THEN [ok |-> TRUE, num |-> SubSeq(t, 1, n), suffix |-> afterSpace[1]]
     ELSE NoMatch

NaN == [nan |-> TRUE, mant |-> 0, dec |-> 0]

\* parseFloat on a text of digits and dots: NaN, or the number mant / 10^dec
\* that the longest numeric prefix denotes.
parseFloat(num) ==
  LET ni == PrefixLen(num, IsDigit)
      rest == Drop(num, ni)
      hasDot == rest # <<>> /\ Head(rest) = "."
      nf == IF hasDot THEN PrefixLen(Tail(rest), IsDigit) ELSE 0
      frac == IF hasDot THEN SubSeq(Tail(rest), 1, nf) ELSE <<>>
  IN IF ni = 0 /\ nf = 0 THEN NaN
     ELSE [nan |-> FALSE, mant |-> DigitsValue(SubSeq(num, 1, ni) \o frac), dec |-> nf]

\* parseInt(t, 10) on a text without sign: the leading digits, or NaN.
parseInt(t) ==
  LET n == PrefixLen(t, IsDigit) IN
  IF n = 0 THEN NaN ELSE [nan |-> FALSE, mant |-> DigitsValue(SubSeq(t, 1, n)), dec |-> 0]

\* Math.round(n * 10^e) for n = mant / 10^dec.
RoundScaled(n, e) ==
  IF e >= n.dec THEN n.mant * 10 ^ (e - n.dec)
  ELSE LET d == 10 ^ (n.dec - e) IN (2 * n.mant + d) \div (2 * d)

\* (m[2] || "").toUpperCase()
ToUpperSuffix(c) ==
  CASE c = "k" -> "K" [] c = "m" -> "M" [] c = "b" -> "B" [] OTHER -> c

\* The power of ten the suffix multiplies by.
ScaleExp(suffix) ==
  LET suf == ToUpperSuffix(suffix) IN
  CASE suf = "K" -> 3 [] suf = "M" -> 6 [] suf = "B" -> 9 [] OTHER -> 0

\* From the match to Math.round(n), common to the parsers.
CountOf(t) ==
  LET m == CountMatch(t) IN
  IF ~m.ok THEN NULL
  ELSE IF parseFloat(m.num).nan THEN NULL
  ELSE RoundScaled(parseFloat(m.num), ScaleExp(m.suffix))

\* parseCount: String(str).trim().replace(/,/g, "")
parseCount(str) == CountOf(RemoveChars(trim(str), {","}))

\* parseCountKmb: also .replace(/\s/g, ""), and the test for dashes.
parseCountKmb(s) ==
  LET t == RemoveChars(RemoveChars(trim(s), {","}), WHITESPACE) IN
  IF t = <<>> \/ (\A k \in 1..Len(t) : t[k] = "-") THEN NULL ELSE CountOf(t)

-----------------------------------------------------------------------------
(* The profile locators *)

NON_PROFILE_SEGMENTS ==
  {<<"p">>, <<"r", "e", "e", "l">>, <<"t", "v">>, <<"e", "x", "p", "l", "o", "r", "e">>,
   <<"s", "t", "o", "r", "i", "e", "s">>, <<"a", "c", "c", "o", "u", "n", "t", "s">>,
   <<"a", "b", "o", "u", "t">>, <<"d", "e", "v", "e", "l", "o", "p", "e", "r">>,
   <<"d", "i", "r", "e", "c", "t", "o", "r", "y">>, <<"d", "i", "r", "e", "c", "t">>,
   <<"r", "e", "e", "l", "s">>, <<"l", "e", "g", "a", "l">>, <<"p", "r", "e", "s", "s">>,
   <<"a", "p", "i">>, <<"h", "e", "l", "p">>, <<"p", "r", "i", "v", "a", "c", "y">>,
   <<"t", "e", "r", "m", "s">>}

\* A URL: the labels of its host and the segments of its path (https, no query).
Url(host, segs) == [host |-> host, segs |-> segs]

\* An href of the page: "abs" (written out), "redirect" (/l/?uddg=<encoded url>)
\* or "rel" (any other relative link).
Href(kind, url) == [kind |-> kind, url |-> url]

WWW_INSTAGRAM == <<"www", "instagram", "com">>

NoUrl == [null |-> TRUE, url |-> Url(<<>>, <<>>)]

SomeUrl(u) == [null |-> FALSE, url |-> u]

\* /instagram\.com$/i.test(url.hostname) || /\.instagram\.com$/i.test(url.hostname)
HostEndsWithInstagram(host) ==
  /\ Len(host) >= 2
  /\ host[Len(host)] = "com"
  /\ host[Len(host) - 1] \in {"instagram", "notinstagram"}

\* \w or "."
IsHandleChar(c) == c \notin {"-", " ", "%", "/"}

\* /^[a-zA-Z0-9_.]+$/.test(segment) && segment.length >= 2 && segment.length <= 30
isLikelyHandle(segment) ==
  /\ \A k \in 1..Len(segment) : IsHandleChar(segment[k])
  /\ Len(segment) >= 2
  /\ Len(segment) <= 30

normalizeInstagramProfileUrl(u) ==
  IF ~HostEndsWithInstagram(u.host) THEN NoUrl
  ELSE IF u.segs = <<>> THEN NoUrl
  ELSE IF toLowerCase(u.segs[1]) \in NON_PROFILE_SEGMENTS THEN NoUrl
  ELSE IF ~isLikelyHandle(u.segs[1]) THEN NoUrl
  ELSE SomeUrl(Url(WWW_INSTAGRAM, <<u.segs[1]>>))

RECURSIVE Dedup(_)
\* The first occurrences, in order.
Dedup(seq) ==
  IF seq = <<>> THEN <<>>
  ELSE LET front == Dedup(SubSeq(seq, 1, Len(seq) - 1))
           x == seq[Len(seq)]
       IN IF \E k \in 1..Len(front) : front[k] = x THEN front ELSE Append(front, x)

\* extractUrlsFromDdgHtml: the redirect targets and the absolute links.
extractUrlsFromDdgHtml(html) ==
  LET linked == SelectSeq(html, LAMBDA h : h.kind \in {"abs", "redirect"})
  IN Dedup([k \in 1..Len(linked) |-> linked[k].url])

bestInstagramProfileFromDdg(html) ==
  LET urls == extractUrlsFromDdgHtml(html)
      profileCandidates ==
        SelectSeq([k \in 1..Len(urls) |-> normalizeInstagramProfileUrl(urls[k])],
                  LAMBDA n : ~n.null)
  IN IF profileCandidates = <<>> THEN NoUrl ELSE Dedup(profileCandidates)[1]

\* /^[\w.]+$/.test(user)
IsUser(user) == user # <<>> /\ \A k \in 1..Len(user) : IsHandleChar(user[k])

\* directRe matches the href: http(s)://(www.)instagram.com/<one segment>(/)
DirectMatch(h) ==
  /\ h.kind = "abs"
  /\ h.url.host \in {WWW_INSTAGRAM, <<"instagram", "com">>}
  /\ Len(h.url.segs) = 1

\* anyRe matches the href: ...instagram.com/<segment>
AnyMatch(h) ==
  /\ h.kind = "abs"
  /\ HostEndsWithInstagram(h.url.host)
  /\ Len(h.url.segs) >= 1

\* A mutation of DirectScan: the handle is not looked at.
DirectScanFirstOnly(html, k, lowerHandle, seen, first) ==
  LET valid == {j \in k..Len(html) :
                  DirectMatch(html[j]) /\ IsUser(trim(toLowerCase(html[j].url.segs[1])))}
  IN IF ~first.null \/ valid = {} THEN first
     ELSE SomeUrl(html[CHOOSE j \in valid : \A m \in valid : j <= m].url)

\* The first loop of extractInstagramUrlFromDdgHtml from href k on: the
\* href equal to the handle, else the first valid one.
RECURSIVE DirectScan(_, _, _, _, _)
DirectScan(html, k, lowerHandle, seen, first) ==
  IF k > Len(html) THEN first
  ELSE IF ~DirectMatch(html[k]) THEN DirectScan(html, k + 1, lowerHandle, seen, first)
  ELSE LET user == trim(toLowerCase(html[k].url.segs[1])) IN
       IF user \in seen THEN DirectScan(html, k + 1, lowerHandle, seen, first)
       ELSE IF ~IsUser(user) THEN DirectScan(html, k + 1, lowerHandle, seen \cup {user}, first)
       ELSE IF user = lowerHandle THEN SomeUrl(html[k].url)
       ELSE DirectScan(html, k + 1, lowerHandle, seen \cup {user},
                       IF first.null THEN SomeUrl(html[k].url) ELSE first)

extractInstagramUrlFromDdgHtml(html, handle) ==
  LET lowerHandle == StripAt(toLowerCase(handle))
      direct == DirectScan(html, 1, lowerHandle, {}, NoUrl)
      any == {k \in 1..Len(html) :
                AnyMatch(html[k]) /\ IsUser(trim(toLowerCase(html[k].url.segs[1])))}
  IN IF ~direct.null THEN direct
     ELSE IF any = {} THEN NoUrl
     ELSE LET k == CHOOSE j \in any : \A m \in any : j <= m
          IN SomeUrl(Url(WWW_INSTAGRAM, <<trim(toLowerCase(html[k].url.segs[1]))>>))

-----------------------------------------------------------------------------
(* The profile summary parser *)

\* The description: the texts that stand before a word, each with the word.
Item(num, word) == [num |-> num, word |-> word]

\* The page: whether it has <meta property="og:description" content="...">, and the content.
Html(meta, content, hrefs) == [meta |-> meta, content |-> content, hrefs |-> hrefs]

NoCounts == [null |-> TRUE, followers |-> NULL, following |-> NULL, postsCount |-> NULL]

\* Which words the label's pattern matches: /Followers?/i, /Following/i, /Posts?/i.
LabelWords(label) ==
  CASE label = "followers" -> {"Followers", "Follower", "followers"}
    [] label = "following" -> {"Following", "following"}
    [] label = "postsCount" -> {"Posts", "Post", "posts"}

\* content.match(/([\d.,]+\s*[KMB]?)\s*<label>/i): the first item with a
\* number before the label, or 0.
LabelMatch(content, label) ==
  LET hits == {k \in 1..Len(content) :
                 content[k].word \in LabelWords(label) /\ content[k].num # <<>>}
  IN IF hits = {} THEN 0 ELSE CHOOSE k \in hits : \A j \in hits : k <= j

LabelCount(content, label) ==
  IF LabelMatch(content, label) = 0 THEN NULL
  ELSE parseCount(content[LabelMatch(content, label)].num)

parseOgDescription(html) ==
  IF ~html.meta THEN NoCounts
  ELSE [null |-> FALSE,
        followers |-> LabelCount(html.content, "followers"),
        following |-> LabelCount(html.content, "following"),
        postsCount |-> LabelCount(html.content, "postsCount")]

-----------------------------------------------------------------------------
(* SpecFetch: the fetch clients, and scrapeOne over fetchTextWithRetry *)

\* Largest IG_RETRIES tried.
MaxRetries == 5

\* Number of names in the input file of the HTTP-only run.
NumNames == 2

\* const MAX_RETRIES = 3 of the ig:sync script, the default of fetchWithRetry's `retries`.
SYNC_MAX_RETRIES == 3

\* The statuses a server answers with.
Statuses == {200, 404, 429, 500}

REALUSER == <<"r", "e", "a", "l", "u", "s", "e", "r">>

\* The same handle as it may be written, and the handle of somebody else.
RealUser == <<"r", "E", "A", "l", "u", "s", "E", "r">>

OTHERUSER == <<"o", "t", "h", "e", "r", "u", "s", "e", "r">>

ABC123 == <<"a", "b", "c", "1", "2", "3">>

\* The pages a server sends: search results with a profile link, with none,
\* with a post link only; a profile page with counts, and one without labels.
Bodies ==
  {Html(FALSE, <<>>, <<Href("abs", Url(WWW_INSTAGRAM, <<REALUSER>>))>>),
   Html(FALSE, <<>>, <<>>),
   Html(FALSE, <<>>, <<Href("abs", Url(WWW_INSTAGRAM, <<<<"p">>, ABC123>>))>>),
   Html(TRUE, <<Item(<<"1", "5">>, "Followers"), Item(<<"2">>, "Following")>>, <<>>),
   Html(TRUE, <<Item(<<>>, "Hello")>>, <<>>)}

\* A mutation of IsRetryStatus: every client or server error is tried again.
IsRetryStatusAnyError(s) == s >= 400

\* res.status === 429 || (res.status >= 500 && res.status < 600)
IsRetryStatus(s) == s = 429 \/ (s >= 500 /\ s < 600)

\* A mutation of Backoff: the delay grows by the base on each attempt.
BackoffLinear(cl, a) == 1000 * (a + 1)

\* The sleep between attempt a and attempt a + 1:
\* Math.min(1000 * 2 ** attempt, 15000) after the failure in fetchTextWithRetry,
\* 1000 * Math.pow(2, attempt - 1) at the head of the next attempt in fetchWithRetry.
Backoff(cl, a) ==
  IF cl = "fetchTextWithRetry" THEN Min(1000 * 2 ^ a, 15000) ELSE 1000 * 2 ^ a

\* new Error(`HTTP ${res.status}`), with e.status in fetchTextWithRetry
HttpError(cl, s) ==
  [msg |-> <<"HTTP ", ToString(s)>>,
   status |-> IF cl = "fetchTextWithRetry" THEN s ELSE NULL]

\* What fetch() or res.text() rejects with.
TransportError == [msg |-> <<"fetch failed">>, status |-> NULL]

\* Characters in the message of a long transport error (one token each).
LongMsgLen == 201

\* A rejection whose message is longer than clampError lets through.
LongTransportError == [msg |-> [k \in 1..LongMsgLen |-> "x"], status |-> NULL]

\* The length clampError cuts at.
CLAMP == 200

\* A mutation of clampError: the message is kept whole.
clampErrorWhole(msg) == msg

\* if (!msg) return ""; return String(msg).slice(0, 200)
clampError(msg) == IF msg = <<>> THEN <<>> ELSE SubSeq(msg, 1, Min(Len(msg), CLAMP))

\* String(err?.message || err): the message, "Error" for an Error without
\* one, "undefined" when nothing was thrown at all.
ErrText(err) ==
  IF err = NoErr THEN <<"undefined">>
  ELSE IF err.msg = <<>> THEN <<"Error">>
  ELSE err.msg

\* counts.x != null ? String(counts.x) : ""
CountText(n) == IF n # NULL THEN <<ToString(n)>> ELSE <<>>

AbortError == [msg |-> <<"This operation was aborted">>, status |-> NULL]

\* IG_RETRIES when it is NaN. Every comparison with NaN is false; it is
\* carried as a number below every attempt, which makes `attempt <= IG_RETRIES`
\* and `attempt < IG_RETRIES` false as NaN does.
NAN_RETRIES == NULL

\* A setting of the environment: unset, or a text.
Unset == [set |-> FALSE, text |-> <<>>]

Setting(text) == [set |-> TRUE, text |-> text]

\* const IG_RETRIES = Math.max(1, parseInt(process.env.IG_RETRIES ?? "3", 10))
IG_RETRIES(env) ==
  LET n == parseInt(IF env.set THEN env.text ELSE <<"3">>) IN
  IF n.nan THEN NAN_RETRIES ELSE IF n.mant >= 1 THEN n.mant ELSE 1

\* The call begins: let lastErr; attempt = 0; the test of the loop, and
\* `throw lastErr` after the loop when the test fails at once.
StartFetch ==
  /\ fpc' = IF 0 <= retries THEN "attempt" ELSE "thrown"
  /\ fetchAttempt' = 0
  /\ lastErr' = NoErr
  /\ ret' = NoRet
  /\ timer' = FALSE
  /\ conn' = "none"
  /\ resStatus' = NULL
  /\ resText' = NoBody
  /\ delays' = <<>>
  /\ nAttempts' = 0
  /\ n429' = 0
  /\ lastOutcome' = "none"
  /\ pacing' = IF pacing \in {"none", "slept"} THEN "paced" ELSE "unpaced"

\* The catch block of an attempt: the next attempt after a sleep, or the throw.
FetchCatch(err, outcome) ==
  /\ lastErr' = err
  /\ lastOutcome' = outcome
  /\ timer' = FALSE
  /\ conn' = "none"
  /\ fpc' = IF fetchAttempt < retries THEN "sleep" ELSE "thrown"

callerVars == <<client, retries, stage, outRow, profileCalls, searchEnded429, searchReturned, nameIdx, pacing>>

\* The attempt arms its timer (fetchTextWithRetry only) and calls fetch().
FetchSend ==
  /\ fpc = "attempt"
  /\ fpc' = "wait"
  /\ timer' = (client = "fetchTextWithRetry")
  /\ conn' \in {"answering", "silent", "failing"}
  /\ nAttempts' = nAttempts + 1
  /\ UNCHANGED <<fetchAttempt, resStatus, resText, lastErr, ret, delays, n429, lastOutcome,
                 callerVars, runVars, funVars>>

\* The headers arrive: clearTimeout(to), then the tests of res.status.
FetchHeaders ==
  /\ fpc = "wait"
  /\ conn = "answering"
  /\ \E s \in Statuses, b \in Bodies, body \in {"complete", "failing", "stalled"} :
       /\ resStatus' = s
       /\ resText' = b
       /\ n429' = n429 + (IF s = 429 THEN 1 ELSE 0)
       /\ IF IsRetryStatus(s)
          THEN IF fetchAttempt < retries
               THEN /\ fpc' = "sleep"
                    /\ lastOutcome' = ToString(s)
                    /\ timer' = FALSE
                    /\ conn' = "none"
                    /\ UNCHANGED lastErr
               ELSE FetchCatch(HttpError(client, s), ToString(s))
          ELSE /\ fpc' = "body"
               /\ lastOutcome' = ToString(s)
               /\ timer' = FALSE
               /\ conn' = body
               /\ UNCHANGED lastErr
  /\ UNCHANGED <<fetchAttempt, ret, delays, nAttempts, callerVars, runVars, funVars>>

\* fetch() rejects: no connection, DNS failure, reset.
FetchRejects ==
  /\ fpc = "wait"
  /\ conn = "failing"
  /\ \E err \in {TransportError, LongTransportError} : FetchCatch(err, "error")
  /\ UNCHANGED <<fetchAttempt, resStatus, resText, ret, delays, nAttempts, n429,
                 callerVars, runVars, funVars>>

\* The timer fires: controller.abort() rejects whatever is awaited.
FetchTimeout ==
  /\ fpc \in {"wait", "body"}
  /\ timer
  /\ FetchCatch(AbortError, "timeout")
  /\ UNCHANGED <<fetchAttempt, resStatus, resText, ret, delays, nAttempts, n429,
                 callerVars, runVars, funVars>>

\* res.text() resolves: return { status: res.status, text } (the text alone in fetchWithRetry).
FetchBody ==
  /\ fpc = "body"
  /\ conn = "complete"
  /\ ret' = [status |-> IF client = "fetchTextWithRetry" THEN resStatus ELSE NULL,
             text |-> resText]
  /\ fpc' = "returned"
  /\ conn' = "none"
  /\ UNCHANGED <<fetchAttempt, timer, resStatus, resText, lastErr, delays, nAttempts, n429,
                 lastOutcome, callerVars, runVars, funVars>>

\* res.text() rejects: the connection breaks while the body is read.
FetchBodyFails ==
  /\ fpc = "body"
  /\ conn = "failing"
  /\ FetchCatch(TransportError, "error")
  /\ UNCHANGED <<fetchAttempt, resStatus, resText, ret, delays, nAttempts, n429,
                 callerVars, runVars, funVars>>

\* The sleep between two attempts is over: attempt++.
FetchBackoff ==
  /\ fpc = "sleep"
  /\ delays' = Append(delays, Backoff(client, fetchAttempt))
  /\ fetchAttempt' = fetchAttempt + 1
  /\ fpc' = "attempt"
  /\ UNCHANGED <<timer, conn, resStatus, resText, lastErr, ret, nAttempts, n429,
                 lastOutcome, callerVars, runVars, funVars>>

\* msg.includes("429")
Includes429(msg) == \E k \in 1..Len(msg) : msg[k] = "429"

\* A mutation of IsRateLimited: only the message is looked at, and for "rate limit".
IsRateLimitedByWording(err) == \E k \in 1..Len(err.msg) : err.msg[k] = "rate limit"

\* findProfileUrl's catch: (err && err.status) === 429 || String(err?.message || err).includes("429")
IsRateLimited(err) == err.status = 429 \/ Includes429(err.msg)

\* scrapeOne returns the row.
ScrapeDone(st, error) ==
  /\ outRow' = [outRow EXCEPT !.status = st, !.error = clampError(error)]
  /\ stage' = "done"
  /\ UNCHANGED <<fpc, fetchAttempt, timer, conn, resStatus, resText, lastErr, ret, delays,
                 nAttempts, n429, lastOutcome, pacing>>

\* The names scrapeOne is given.
FetchNames == {<<"A", "a">>, <<" ">>}

\* Nothing is under way: no call, no row, the first name.
FetchAtStart ==
  /\ variant = "playwright"
  /\ now = 20
  /\ args = [force |-> FALSE, onlyMissing |-> FALSE, startFrom |-> <<>>, limit |-> NULL]
  /\ db = <<>>
  /\ db0 = db
  /\ players = <<>>
  /\ pc = "fetch"
  /\ ledgerExists = FALSE
  /\ ledger = <<>>
  /\ LedgerAtStart
  /\ res = <<>>
  /\ session = FALSE
  /\ creds = FALSE
  /\ i = 1
  /\ browser = "none"
  /\ result = NoResult
  /\ attempt = 0
  /\ lastError = <<>>
  /\ loginCtx = "initial"
  /\ exitCode = NULL
  /\ abortCause = "none"
  /\ tries = 0
  /\ loginCalls = 0
  /\ written = {}
  /\ scraped = NoScrape
  /\ shown = NoPage
  /\ diag = ""
  /\ prompt = "none"
  /\ loggedIn = FALSE
  /\ loginEnd = "none"
  /\ navSpacing = "none"
  /\ delayMs = NULL
  /\ fpc = "idle"
  /\ fetchAttempt = 0
  /\ timer = FALSE
  /\ conn = "none"
  /\ resStatus = NULL
  /\ resText = NoBody
  /\ lastErr = NoErr
  /\ ret = NoRet
  /\ delays = <<>>
  /\ nAttempts = 0
  /\ n429 = 0
  /\ lastOutcome = "none"
  /\ stage = "none"
  /\ outRow = NoRow
  /\ profileCalls = 0
  /\ searchEnded429 = FALSE
  /\ searchReturned = 0
  /\ nameIdx = 1
  /\ pacing = "none"
  /\ fun = "none"
  /\ output = <<>>

InitFetch ==
  /\ client \in {"fetchTextWithRetry", "fetchWithRetry"}
  /\ retries \in (IF client = "fetchTextWithRetry" THEN 1..MaxRetries ELSE {SYNC_MAX_RETRIES})
  /\ input \in (IF client = "fetchTextWithRetry" THEN FetchNames ELSE {<<"A", "a">>})
  /\ FetchAtStart

\* A caller of fetchWithRetry makes its call.
SyncCall ==
  /\ pc = "fetch"
  /\ client = "fetchWithRetry"
  /\ stage = "none"
  /\ stage' = "call"
  /\ StartFetch
  /\ UNCHANGED <<client, retries, outRow, profileCalls, searchEnded429, searchReturned, nameIdx, runVars,
                 funVars>>

\* scrapeOne up to the first query of findProfileUrl.
ScrapeOne_Start ==
  /\ pc = "fetch"
  /\ client = "fetchTextWithRetry"
  /\ stage = "none"
  /\ IF trim(input) = <<>>
     THEN ScrapeDone("invalid_name", <<"Empty name">>)
     ELSE /\ stage' = "q1"
          /\ StartFetch
          /\ UNCHANGED outRow
  /\ UNCHANGED <<client, retries, profileCalls, searchEnded429, searchReturned, nameIdx, runVars, funVars>>

\* findProfileUrl after a query, and scrapeOne after findProfileUrl: the
\* profile is fetched, or the next query is made, or the row is returned.
FindProfileUrl_Query ==
  /\ stage \in {"q1", "q2"}
  /\ fpc \in {"returned", "thrown"}
  /\ searchEnded429' = (searchEnded429 \/ (fpc = "thrown" /\ lastOutcome = "429"))
  /\ searchReturned' = searchReturned + (IF fpc = "returned" THEN 1 ELSE 0)
  /\ LET found == IF fpc = "returned" THEN bestInstagramProfileFromDdg(ret.text.hrefs) ELSE NoUrl
     IN IF ~found.null
        THEN /\ stage' = "profile"
             /\ outRow' = [outRow EXCEPT !.profileUrl = found.url]
             /\ profileCalls' = profileCalls + 1
             /\ StartFetch
        ELSE IF fpc = "thrown" /\ IsRateLimited(lastErr)
        THEN ScrapeDone("blocked", <<"DuckDuckGo rate limited (", "429", ")">>) /\ UNCHANGED profileCalls
        ELSE IF stage = "q1"
        THEN /\ stage' = "q2"
             /\ StartFetch
             /\ UNCHANGED <<outRow, profileCalls>>
        ELSE ScrapeDone("not_found", <<"No Instagram profile found via DuckDuckGo">>)
             /\ UNCHANGED profileCalls
  /\ UNCHANGED <<client, retries, nameIdx, runVars, funVars>>

\* scrapeOne after the fetch of the profile page.
ScrapeOne_Profile ==
  /\ stage = "profile"
  /\ fpc \in {"returned", "thrown"}
  /\ IF fpc = "returned"
     THEN LET counts == parseOgDescription(ret.text) IN
          IF counts.null \/ (counts.followers = NULL /\ counts.following = NULL
                              /\ counts.postsCount = NULL)
          THEN ScrapeDone("parse_failed", <<"Could not parse og:description">>)
          ELSE /\ outRow' = [outRow EXCEPT !.status = "ok",
                                           !.followers = CountText(counts.followers),
                                           !.following = CountText(counts.following),
                                           !.postsCount = CountText(counts.postsCount)]
               /\ stage' = "done"
               /\ UNCHANGED <<fpc, fetchAttempt, timer, conn, resStatus, resText, lastErr, ret,
                              delays, nAttempts, n429, lastOutcome, pacing>>
     ELSE IF Includes429(ErrText(lastErr))
     THEN ScrapeDone("blocked", <<"Instagram rate limited (", "429", ")">>)
     ELSE ScrapeDone("fetch_failed", ErrText(lastErr))
  /\ UNCHANGED <<client, retries, profileCalls, searchEnded429, searchReturned, nameIdx, runVars, funVars>>

\* main after scrapeOne: the row is kept, and before the next name
\* `if (i < total - 1) await sleep(DELAY_MS)`; the locals of scrapeOne are gone.
Main_Sleep ==
  /\ client = "fetchTextWithRetry"
  /\ stage = "done"
  /\ nameIdx < NumNames
  /\ nameIdx' = nameIdx + 1
  /\ pacing' = "slept"
  /\ input' \in {n \in FetchNames : trim(n) # <<>>}
  /\ stage' = "none"
  /\ outRow' = NoRow
  /\ profileCalls' = 0
  /\ searchEnded429' = FALSE
  /\ searchReturned' = 0
  /\ fpc' = "idle"
  /\ fetchAttempt' = 0
  /\ timer' = FALSE
  /\ conn' = "none"
  /\ resStatus' = NULL
  /\ resText' = NoBody
  /\ lastErr' = NoErr
  /\ ret' = NoRet
  /\ delays' = <<>>
  /\ nAttempts' = 0
  /\ n429' = 0
  /\ lastOutcome' = "none"
  /\ UNCHANGED <<client, retries, fun, output, runVars>>

NextFetch ==
  \/ SyncCall
  \/ Main_Sleep
  \/ ScrapeOne_Start
  \/ FetchSend
  \/ FetchHeaders
  \/ FetchRejects
  \/ FetchTimeout
  \/ FetchBody
  \/ FetchBodyFails
  \/ FetchBackoff
  \/ FindProfileUrl_Query
  \/ ScrapeOne_Profile

SpecFetch == InitFetch /\ [][NextFetch]_vars

\* Timers fire, servers that answer do answer, and the event loop runs what is ready.
SpecFetchLive == SpecFetch /\ WF_vars(NextFetch)

\* The settings of IG_RETRIES: unset, numbers, a text that is no number, the
\* empty text.
RetrySettings == {Unset, Setting(<<"0">>), Setting(<<"2">>), Setting(<<"x">>), Setting(<<>>)}

\* The scrape script started under each setting of IG_RETRIES.
InitFetchEnv ==
  /\ client = "fetchTextWithRetry"
  /\ retries \in {IG_RETRIES(env) : env \in RetrySettings}
  /\ input \in FetchNames
  /\ FetchAtStart

NextFetchEnv ==
  \/ Main_Sleep
  \/ ScrapeOne_Start
  \/ FetchSend
  \/ FetchHeaders
  \/ FetchRejects
  \/ FetchTimeout
  \/ FetchBody
  \/ FetchBodyFails
  \/ FetchBackoff
  \/ FindProfileUrl_Query
  \/ ScrapeOne_Profile

SpecFetchEnv == InitFetchEnv /\ [][NextFetchEnv]_vars

-----------------------------------------------------------------------------
(* SpecFun: the parsers and the locators, each applied to every small input *)

\* Most hrefs on a page of search results.
MaxHrefs == 2

\* Most items in a description.
MaxItems == 2

\* /^\s*(p|reel|tv|explore|stories|accounts|direct|reels)\s*$/i of ddgSearchProfileUrl
invalidPaths ==
  {<<"p">>, <<"r", "e", "e", "l">>, <<"t", "v">>, <<"e", "x", "p", "l", "o", "r", "e">>,
   <<"s", "t", "o", "r", "i", "e", "s">>, <<"a", "c", "c", "o", "u", "n", "t", "s">>,
   <<"d", "i", "r", "e", "c", "t">>, <<"r", "e", "e", "l", "s">>}

\* ddgSearchProfileUrl after the page is loaded: the first link to a
\* one-segment path that is no invalid path, else the URL made of the handle.
ddgSearchProfileUrl(html, handle) ==
  LET good == {k \in 1..Len(html) :
                 /\ DirectMatch(html[k])
                 /\ toLowerCase(trim(html[k].url.segs[1])) \notin invalidPaths
                 /\ IsUser(trim(html[k].url.segs[1]))}
  IN IF good # {} THEN SomeUrl(html[CHOOSE k \in good : \A j \in good : k <= j].url)
     ELSE SomeUrl(Url(WWW_INSTAGRAM, <<trim(StripAt(handle))>>))

-----------------------------------------------------------------------------
(* The label blocks of a stats page *)

\* A parsed number mant / 10^dec, or null.
NoNum == [null |-> TRUE, mant |-> 0, dec |-> 0]

IntNum(n) == IF n = NULL THEN NoNum ELSE [null |-> FALSE, mant |-> n, dec |-> 0]

FloatNum(f) == IF f.nan THEN NoNum ELSE [null |-> FALSE, mant |-> f.mant, dec |-> f.dec]

\* a ?? b
Coalesce(a, b) == IF a.null THEN b ELSE a

parseIntClean(s) ==
  LET t == RemoveChars(trim(s), {","}) IN
  IF t = <<>> THEN NoNum ELSE FloatNum(parseInt(t))

parseFloatClean(s) ==
  LET t == RemoveChars(trim(s), {","}) IN
  IF t = <<>> THEN NoNum ELSE FloatNum(parseFloat(t))

parsePercent(s) ==
  LET t == RemoveChars(RemoveChars(trim(s), {"%"}), {","}) IN
  IF t = <<>> THEN NoNum ELSE FloatNum(parseFloat(t))

COUNT_LABELS == {"Followers", "Following", "Media Count", "Uploads"}

AVERAGE_LABELS == {"Average Likes", "Average Comments"}

\* The `parse` of the label in STAT_LABELS (labelToParser in the Selenium script).
LabelParse(label, t) ==
  IF label \in COUNT_LABELS THEN Coalesce(IntNum(parseCountKmb(t)), parseIntClean(t))
  ELSE IF label \in AVERAGE_LABELS THEN Coalesce(parseFloatClean(t), IntNum(parseCountKmb(t)))
  ELSE parsePercent(t)

IsNumPunct(c) == IsDigit(c) \/ c \in {",", "."}

\* rest.match(/[\d,.]+%?|\d[\d,.]*(?:[KMB])?/): the leftmost match. A place
\* where the second alternative matches starts with a digit, where the first
\* alternative, tried first, matches too: the match is the leftmost run of
\* digits, commas and dots, with the percent sign after it if there is one.
NumMatch(rest) ==
  LET starts == {k \in 1..Len(rest) : IsNumPunct(rest[k])} IN
  IF starts = {} THEN [ok |-> FALSE, text |-> <<>>]
  ELSE LET from == CHOOSE k \in starts : \A j \in starts : k <= j
           tail == Drop(rest, from - 1)
           n == PrefixLen(tail, IsNumPunct)
           pct == IF Len(tail) > n /\ tail[n + 1] = "%" THEN 1 ELSE 0
       IN [ok |-> TRUE, text |-> SubSeq(tail, 1, n + pct)]

\* The body of the loop over STAT_LABELS once the block text is read: the
\* parser on the whole text, then on the number matched in the text without
\* the label.
LabelBlockValue(label, blockText) ==
  LET val == LabelParse(label, blockText) IN
  IF val.null /\ (\E k \in 1..Len(blockText) : blockText[k] = label)
  THEN LET rest == trim(RemoveChars(blockText, {label}))
           numMatch == NumMatch(rest)
       IN IF numMatch.ok THEN LabelParse(label, numMatch.text) ELSE NoNum
  ELSE val

\* The numbers a stats page shows beside a label.
BlockNumbers ==
  {<<"1", ".", "2", "M">>, <<"3", ".", "4", "K">>, <<"1", "0", "K">>,
   <<"1", "2", ",", "3", "4", "5">>, <<"8", "5", "0">>, <<"8", ".", "2", "5", "%">>}

\* The block texts: the number over, after, or on the line of the label.
LabelBlockInputs ==
  UNION {{[label |-> l, number |-> n, blockText |-> n \o <<"\n", l>>],
          [label |-> l, number |-> n, blockText |-> <<l, "\n">> \o n],
          [label |-> l, number |-> n, blockText |-> <<l, " ">> \o n]} :
           l \in COUNT_LABELS \cup AVERAGE_LABELS \cup {"Engagement Rate"},
           n \in BlockNumbers}

\* The characters the count strings are made of.
CountChars == {"1", "5", ".", ",", "K", "m", "-", " ", "x"}

RECURSIVE Strings(_, _)
\* The sequences of at most n elements of S.
Strings(S, n) ==
  IF n = 0 THEN {<<>>}
  ELSE LET shorter == Strings(S, n - 1) IN
       shorter \cup {Append(s, c) : s \in {t \in shorter : Len(t) = n - 1}, c \in S}

\* The count strings: all the short ones, and some that the pages show.
CountInputs ==
  Strings(CountChars, MaxLen)
    \cup {<<"1", "2", ",", "3", "4", "5">>, <<"1", "0", "K">>, <<"3", ".", "4", "M">>,
          <<"1", "B">>, <<"-", "-", "-">>, <<"1", ".", "2", ".", "3">>, <<"2", ".", "5", "k">>}

\* The hrefs of the pages of search results.
SearchHrefs ==
  {Href("abs", Url(WWW_INSTAGRAM, <<REALUSER>>)),
   Href("abs", Url(<<"instagram", "com">>, <<RealUser>>)),
   Href("abs", Url(WWW_INSTAGRAM, <<OTHERUSER>>)),
   Href("abs", Url(WWW_INSTAGRAM, <<<<"p">>, ABC123>>)),
   Href("abs", Url(WWW_INSTAGRAM, <<<<"r", "e", "e", "l">>>>)),
   Href("abs", Url(WWW_INSTAGRAM, <<<<"a", "b", "o", "u", "t">>>>)),
   Href("redirect", Url(WWW_INSTAGRAM, <<<<"p">>, ABC123>>)),
   Href("abs", Url(<<"example", "com">>, <<REALUSER>>)),
   Href("rel", Url(<<>>, <<<<"h", "t", "m", "l">>>>))}

\* The arguments of the locators: the hrefs of the page, and the handle.
LocatorInputs ==
  [html : Strings(SearchHrefs, MaxHrefs), handle : {REALUSER, <<"@">> \o RealUser}]

\* The items of the descriptions.
DescriptionItems ==
  {Item(<<"1", "5">>, "Followers"), Item(<<"2">>, "Following"), Item(<<"7">>, "Posts"),
   Item(<<>>, "Hello"), Item(<<"x">>, "Followers")}

\* The pages given to the summary parser: with and without the meta tag.
OgInputs == {Html(m, c, <<>>) : m \in BOOLEAN, c \in Strings(DescriptionItems, MaxItems)}

FUNS ==
  {"parseCount", "parseCountKmb", "bestInstagramProfileFromDdg",
   "extractInstagramUrlFromDdgHtml", "ddgSearchProfileUrl", "parseOgDescription",
   "scrapePlayer"}

\* Nothing returned yet, and a value returned.
Pending == [done |-> FALSE]

Returned(v) == [done |-> TRUE, value |-> v]

InitFun ==
  /\ variant = "playwright"
  /\ now = 20
  /\ args = [force |-> FALSE, onlyMissing |-> FALSE, startFrom |-> <<>>, limit |-> NULL]
  /\ db = <<>>
  /\ db0 = db
  /\ players = <<>>
  /\ pc = "fun"
  /\ ledgerExists = FALSE
  /\ ledger = <<>>
  /\ LedgerAtStart
  /\ res = <<>>
  /\ session = FALSE
  /\ creds = FALSE
  /\ i = 1
  /\ browser = "none"
  /\ result = NoResult
  /\ attempt = 0
  /\ lastError = <<>>
  /\ loginCtx = "initial"
  /\ exitCode = NULL
  /\ abortCause = "none"
  /\ tries = 0
  /\ loginCalls = 0
  /\ written = {}
  /\ scraped = NoScrape
  /\ shown = NoPage
  /\ diag = ""
  /\ prompt = "none"
  /\ loggedIn = FALSE
  /\ loginEnd = "none"
  /\ navSpacing = "none"
  /\ delayMs = NULL
  /\ FetchIdle
  /\ fun \in FUNS
  /\ input \in (CASE fun \in {"parseCount", "parseCountKmb"} -> CountInputs
                  [] fun = "parseOgDescription" -> OgInputs
                  [] fun = "scrapePlayer" -> LabelBlockInputs
                  [] OTHER -> LocatorInputs)
  /\ output = Pending

\* parseCount is applied to the string.
Call_parseCount ==
  /\ pc = "fun"
  /\ fun = "parseCount"
  /\ ~output.done
  /\ output' = Returned(parseCount(input))
  /\ UNCHANGED <<fun, input, runVars, fetchVars>>

\* parseCountKmb is applied to the string.
Call_parseCountKmb ==
  /\ pc = "fun"
  /\ fun = "parseCountKmb"
  /\ ~output.done
  /\ output' = Returned(parseCountKmb(input))
  /\ UNCHANGED <<fun, input, runVars, fetchVars>>

\* The locator of the scrape script is applied to the page.
Call_bestInstagramProfileFromDdg ==
  /\ pc = "fun"
  /\ fun = "bestInstagramProfileFromDdg"
  /\ ~output.done
  /\ output' = Returned(bestInstagramProfileFromDdg(input.html))
  /\ UNCHANGED <<fun, input, runVars, fetchVars>>

\* The locator of ig:sync is applied to the page and the handle.
Call_extractInstagramUrlFromDdgHtml ==
  /\ pc = "fun"
  /\ fun = "extractInstagramUrlFromDdgHtml"
  /\ ~output.done
  /\ output' = Returned(extractInstagramUrlFromDdgHtml(input.html, input.handle))
  /\ UNCHANGED <<fun, input, runVars, fetchVars>>

\* The locator of the Selenium script is applied to the page and the handle.
Call_ddgSearchProfileUrl ==
  /\ pc = "fun"
  /\ fun = "ddgSearchProfileUrl"
  /\ ~output.done
  /\ output' = Returned(ddgSearchProfileUrl(input.html, input.handle))
  /\ UNCHANGED <<fun, input, runVars, fetchVars>>

\* The summary parser is applied to the page.
Call_parseOgDescription ==
  /\ pc = "fun"
  /\ fun = "parseOgDescription"
  /\ ~output.done
  /\ output' = Returned(parseOgDescription(input))
  /\ UNCHANGED <<fun, input, runVars, fetchVars>>

\* The label loop of scrapePlayer (scrapeSocialBladeStatsDom) reads one block.
Call_LabelBlock ==
  /\ pc = "fun"
  /\ fun = "scrapePlayer"
  /\ ~output.done
  /\ output' = Returned(LabelBlockValue(input.label, input.blockText))
  /\ UNCHANGED <<fun, input, runVars, fetchVars>>

NextFun ==
  \/ Call_parseCount
  \/ Call_parseCountKmb
  \/ Call_bestInstagramProfileFromDdg
  \/ Call_extractInstagramUrlFromDdgHtml
  \/ Call_ddgSearchProfileUrl
  \/ Call_parseOgDescription
  \/ Call_LabelBlock

SpecFun == InitFun /\ [][NextFun]_vars

-----------------------------------------------------------------------------
(* SpecCron: the handler of the cron route, which asks Instagram itself *)

\* A member of the profile JSON: absent (or null), a number, or a string.
JsonValue(type, n) == [type |-> type, n |-> n]

\* The user objects of the bodies Instagram answers with.
ProfileUsers ==
  {[followers |-> f, following |-> g] :
     f \in {JsonValue("absent", NULL), JsonValue("number", 5000), JsonValue("string", 5000)},
     g \in {JsonValue("absent", NULL), JsonValue("number", 8)}}

NoData == [null |-> TRUE, followers |-> NULL, following |-> NULL]

\* parseProfileJson once JSON.parse has given the user object.
parseProfileJson(user) ==
  IF user.followers.type = "absent" /\ user.following.type = "absent" THEN NoData
  ELSE [null |-> FALSE,
        followers |-> IF user.followers.type = "number" THEN user.followers.n ELSE NULL,
        following |-> IF user.following.type = "number" THEN user.following.n ELSE NULL]

\* The row after the handler's prisma.player.update.
CronMergedRow(row, data, t) ==
  [row EXCEPT !.followers = IF data.followers # NULL THEN data.followers ELSE @,
              !.following = IF data.following # NULL THEN data.following ELSE @,
              !.instagramUpdatedAt = t]

InitCron ==
  /\ variant = "playwright"
  /\ now = 20
  /\ args = [force |-> FALSE, onlyMissing |-> FALSE, startFrom |-> <<>>, limit |-> NULL]
  /\ db \in RunTables(now)
  /\ db0 = db
  /\ players = [k \in 1..NumPlayers |-> k]
  /\ pc = "cron_loop"
  /\ ledgerExists = FALSE
  /\ ledger = <<>>
  /\ LedgerAtStart
  /\ res = [id \in DOMAIN db |-> NoResult]
  /\ RunIdle
  /\ session = FALSE
  /\ creds = FALSE

\* handler, head of an iteration: a username of blanks is passed over.
CronItem ==
  /\ pc = "cron_loop"
  /\ i <= Len(players)
  /\ IF trim(CurP.instagram) = <<>>
     THEN i' = i + 1 /\ pc' = "cron_loop"
     ELSE i' = i /\ pc' = "cron_scrape"
  /\ UNCHANGED <<cfg, db, players, browser, session, ledgerExists, ledger, calls, result,
                 attempt, lastError, loginCtx, exitCode, abortCause, tries, loginCalls,
                 res, written>>

\* scrapeInstagramProfile: null when the fetch fails, else what parseProfileJson gives.
CronScrape ==
  /\ pc = "cron_scrape"
  /\ \E fetched \in BOOLEAN, user \in ProfileUsers :
       LET data == IF fetched THEN parseProfileJson(user) ELSE NoData IN
       result' = [NoResult EXCEPT !.status = IF data.null THEN "error" ELSE "ok",
                                  !.followers = data.followers,
                                  !.following = data.following]
  /\ pc' = "cron_update"
  /\ UNCHANGED <<cfg, db, players, i, browser, session, ledgerExists, ledger, calls,
                 attempt, lastError, loginCtx, exitCode, abortCause, tries, loginCalls,
                 res, written>>

\* handler: if (data) prisma.player.update(...); an exception ends the request with 500.
CronUpdate ==
  /\ pc = "cron_update"
  /\ res' = [res EXCEPT ![CurId] = result]
  /\ IF result.status = "ok"
     THEN \E dbOk \in BOOLEAN :
            IF dbOk
            THEN /\ db' = [db EXCEPT ![CurId] = CronMergedRow(@, result, now)]
                 /\ written' = written \cup {CurId}
                 /\ pc' = "cron_delay"
                 /\ UNCHANGED <<exitCode, abortCause>>
            ELSE /\ pc' = "exit"
                 /\ exitCode' = 1
                 /\ abortCause' = "db"
                 /\ UNCHANGED <<db, written>>
     ELSE /\ pc' = "cron_delay"
          /\ UNCHANGED <<db, written, exitCode, abortCause>>
  /\ UNCHANGED <<cfg, players, i, browser, session, ledgerExists, ledger, calls, result,
                 attempt, lastError, loginCtx, tries, loginCalls>>

\* handler: await delay(1500), then the next player.
CronDelay ==
  /\ pc = "cron_delay"
  /\ i' = i + 1
  /\ result' = NoResult
  /\ pc' = "cron_loop"
  /\ UNCHANGED <<cfg, db, players, browser, session, ledgerExists, ledger, calls,
                 attempt, lastError, loginCtx, exitCode, abortCause, tries, loginCalls,
                 res, written>>

\* handler: the loop is over and the response is sent.
CronEnd ==
  /\ pc = "cron_loop"
  /\ i > Len(players)
  /\ pc' = "exit"
  /\ exitCode' = 0
  /\ UNCHANGED <<cfg, db, players, i, browser, session, ledgerExists, ledger, calls, result,
                 attempt, lastError, loginCtx, abortCause, tries, loginCalls, res, written>>

NextCron ==
  \/ CronItem
  \/ CronScrape
  \/ CronUpdate
  \/ CronDelay
  \/ CronEnd

SpecCron == InitCron /\ [][NextCron]_vars


-----------------------------------------------------------------------------
(* SpecEngage: a batch run of the engagement scraper, beside another run *)

\* Players in the table of the engagement scraper.
EngPlayers == 2

\* The engagement rate another run stores, in hundredths of a percent.
OTHER_RATE == 975

ENG_HEADER == <<"name,instagram,reason", "\n">>

\* The line appendFailedCsv of the engagement scraper builds.
EngCsvRow(name, instagram, reason) ==
  Join(<<CsvField(name), CsvField(instagram), CsvField(reason)>>, <<",">>) \o <<"\n">>

\* appendFailedCsv of the engagement scraper: three columns.
EngAppendFailedCsv(name, instagram, reason) ==
  LET row == EngCsvRow(name, instagram, reason) IN
  /\ ledger' = (IF ~ledgerExists THEN ENG_HEADER \o row ELSE ledger \o row)
  /\ ledgerExists' = TRUE
  /\ calls' = Append(calls, row)

\* A row of the Player table as the engagement scraper selects it.
EngRow(name, instagram, followers, posts, avgLikes, avgComments, rate, checkedAt, st) ==
  [name |-> name, instagram |-> instagram, followers |-> followers, posts |-> posts,
   avgLikes |-> avgLikes, avgComments |-> avgComments, engagementRate |-> rate,
   igEngagementLastCheckedAt |-> checkedAt, igEngagementStatus |-> st]

\* The tables of a run: a player never checked without metrics, and a player
\* checked eight days ago whose metrics are stored (or whose rate is not).
EngTables(t) ==
  {[k \in 1..EngPlayers |->
      IF k % 2 = 1
      THEN EngRow(NAMES[k], <<"@", "a">>, NULL, NULL, NULL, NULL, NULL, NULL, "")
      ELSE EngRow(NAMES[k], <<"b">>, 100, 5, 20, 3, rate, t - 8, "ok")] :
     rate \in {NULL, 2300}}

\* The wordings the four tests of the page source look for.
PageWords == {{}, {"log in"}, {"log in", "instagram"}, {"page not found"}, {"private account"},
              {"try again later"}, {"instagram", "log in", "try again later"}}

\* A profile page: the wordings of the source, the counts of the shared
\* data JSON, and the likes and comments the opened posts show.
EngPage(words, followers, totalPosts, likes, comments) ==
  [words |-> words, followers |-> followers, totalPosts |-> totalPosts,
   likes |-> likes, comments |-> comments]

\* The profile pages: one with each wording and the counts beside it, and
\* pages without such wording that yield nothing, some metrics, or all.
EngPages ==
  {EngPage(w, 200, 5, <<>>, <<>>) : w \in PageWords \ {{}, {"log in"}}}
    \cup {EngPage(w, NULL, NULL, <<>>, <<>>) : w \in {{}, {"log in"}}}
    \cup {EngPage({}, 200, 5, <<10, 21>>, <<3>>),
          EngPage({}, 0, NULL, <<10, 21>>, <<>>),
          EngPage({}, 200, NULL, <<>>, <<>>),
          EngPage({}, NULL, NULL, <<>>, <<3>>)}

NoEngResult ==
  [followers |-> NULL, totalPosts |-> NULL, avgLikes |-> NULL, avgComments |-> NULL,
   engagementRate |-> NULL, status |-> "ok"]

RECURSIVE Sum(_)
Sum(list) == IF list = <<>> THEN 0 ELSE Head(list) + Sum(Tail(list))

\* Math.round(list.reduce((a, b) => a + b, 0) / list.length)
RoundedMean(list) == (2 * Sum(list) + Len(list)) \div (2 * Len(list))

\* Math.round((totalEng / followers) * 10000) / 100, in hundredths of a percent.
RatePercent(totalEng, followers) == (2 * totalEng * 10000 + followers) \div (2 * followers)

\* x || 0
OrZero(x) == IF x = NULL THEN 0 ELSE x

\* scrapeProfileStatsAndRecentPosts once the page is loaded.
scrapeProfileStatsAndRecentPosts(pg) ==
  IF {"log in", "instagram"} \subseteq pg.words THEN [NoEngResult EXCEPT !.status = "login_wall"]
  ELSE IF "page not found" \in pg.words THEN [NoEngResult EXCEPT !.status = "page_not_available"]
  ELSE IF "private account" \in pg.words THEN [NoEngResult EXCEPT !.status = "private"]
  ELSE IF "try again later" \in pg.words THEN [NoEngResult EXCEPT !.status = "rate_limit"]
  ELSE LET avgLikes == IF pg.likes # <<>> THEN RoundedMean(pg.likes) ELSE NULL
           avgComments == IF pg.comments # <<>> THEN RoundedMean(pg.comments) ELSE NULL
       IN [followers |-> pg.followers,
           totalPosts |-> pg.totalPosts,
           avgLikes |-> avgLikes,
           avgComments |-> avgComments,
           engagementRate |->
             IF pg.followers # NULL /\ pg.followers > 0
                /\ (avgLikes # NULL \/ avgComments # NULL)
             THEN RatePercent(OrZero(avgLikes) + OrZero(avgComments), pg.followers)
             ELSE NULL,
           status |-> "ok"]

\* The predicate of the freshness filter of the engagement scraper.
EngIsStale(p, cutoff) ==
  \/ p.igEngagementLastCheckedAt = NULL
  \/ p.igEngagementLastCheckedAt < cutoff
  \/ (p.igEngagementStatus # "" /\ p.igEngagementStatus # "ok")

\* The predicate of its --only-missing filter.
EngIsMissing(p) == p.engagementRate = NULL \/ p.avgLikes = NULL \/ p.avgComments = NULL

\* main of the engagement scraper, from findMany to "Players to process".
EngSelectPlayers(table, a, t) ==
  LET cut == LimitCut(StartFromCut(table, findMany(table), a.startFrom), a.limit)
      stale == IF ~a.force
               THEN SelectSeq(cut, LAMBDA id : EngIsStale(table[id], t - SKIP_IF_OK_DAYS))
               ELSE cut
  IN IF a.onlyMissing THEN SelectSeq(stale, LAMBDA id : EngIsMissing(table[id])) ELSE stale

\* What the per-item write of a run that was not interrupted stores.
EngStoredRow(row, r, t) ==
  [row EXCEPT !.followers = IF r.followers # NULL THEN r.followers ELSE @,
              !.posts = IF r.totalPosts # NULL THEN r.totalPosts ELSE @,
              !.avgLikes = IF r.avgLikes # NULL THEN r.avgLikes ELSE @,
              !.avgComments = IF r.avgComments # NULL THEN r.avgComments ELSE @,
              !.engagementRate = IF r.engagementRate # NULL THEN r.engagementRate ELSE NULL,
              !.igEngagementLastCheckedAt = t,
              !.igEngagementStatus = r.status]

\* The variables the engagement scraper has no use for.
engUnused == <<runCfg, session, attempt, lastError, loginCtx, tries, loginCalls, shown, diag,
               loggedIn, prompt, loginEnd>>

EngArgs ==
  {[force |-> f, onlyMissing |-> m, startFrom |-> <<>>, limit |-> NULL] :
     f \in BOOLEAN, m \in BOOLEAN}

InitEngage ==
  /\ variant = "selenium"
  /\ now = 20
  /\ args \in EngArgs
  /\ db \in EngTables(now)
  /\ db0 = db
  /\ players = <<>>
  /\ pc = "eng_start"
  /\ ledgerExists \in BOOLEAN
  /\ ledger = IF ledgerExists THEN ENG_HEADER ELSE <<>>
  /\ LedgerAtStart
  /\ res = [id \in DOMAIN db |-> NoEngResult]
  /\ RunIdle
  /\ session = FALSE
  /\ creds = FALSE

\* main: parseArgs, findMany, the filters, createDriver.
EngSelect ==
  /\ pc = "eng_start"
  /\ players' = EngSelectPlayers(db, args, now)
  /\ browser' = "open"
  /\ pc' = "eng_loop"
  /\ UNCHANGED <<engUnused, scraped, db, i, ledgerExists, ledger, calls, result, exitCode,
                 abortCause, res, written>>

\* main, head of an iteration: the locals start from the row that was selected.
EngItem ==
  /\ pc = "eng_loop"
  /\ i <= Len(players)
  /\ result' = [followers |-> CurP.followers, totalPosts |-> CurP.posts,
                avgLikes |-> CurP.avgLikes, avgComments |-> CurP.avgComments,
                engagementRate |-> CurP.engagementRate, status |-> "ok"]
  /\ pc' = "eng_scrape"
  /\ UNCHANGED <<engUnused, scraped, db, players, i, browser, ledgerExists, ledger, calls,
                 exitCode, abortCause, res, written>>

\* main: ddgSearchProfileUrl and scrapeProfileStatsAndRecentPosts; what was
\* extracted replaces the local, or the driver throws.
EngScrape ==
  /\ pc = "eng_scrape"
  /\ \E thrown \in BOOLEAN, pg \in EngPages :
       IF thrown
       THEN /\ pc' = "eng_catch"
            /\ result' = [result EXCEPT !.status = "error"]
            /\ scraped' = NoScrape
       ELSE LET s == scrapeProfileStatsAndRecentPosts(pg) IN
            /\ pc' = "eng_store"
            /\ scraped' = s
            /\ result' =
                 [followers |-> IF s.followers # NULL THEN s.followers ELSE result.followers,
                  totalPosts |-> IF s.totalPosts # NULL THEN s.totalPosts ELSE result.totalPosts,
                  avgLikes |-> IF s.avgLikes # NULL THEN s.avgLikes ELSE result.avgLikes,
                  avgComments |-> IF s.avgComments # NULL THEN s.avgComments
                                  ELSE result.avgComments,
                  engagementRate |-> IF s.engagementRate # NULL THEN s.engagementRate
                                     ELSE result.engagementRate,
                  status |-> s.status]
  /\ UNCHANGED <<engUnused, db, players, i, browser, ledgerExists, ledger, calls, exitCode,
                 abortCause, res, written>>

\* main, the catch of an item: the ledger, the status, the delay, the next item.
EngCatch ==
  /\ pc = "eng_catch"
  /\ EngAppendFailedCsv(CurP.name, StripAt(trim(CurP.instagram)), <<"driver error">>)
  /\ res' = [res EXCEPT ![CurId] = [NoEngResult EXCEPT !.status = "error"]]
  /\ \E dbOk \in BOOLEAN :
       IF dbOk
       THEN /\ db' = [db EXCEPT ![CurId].igEngagementLastCheckedAt = now,
                                ![CurId].igEngagementStatus = "error"]
            /\ written' = written \cup {CurId}
            /\ i' = i + 1
            /\ result' = NoResult
            /\ pc' = "eng_loop"
            /\ UNCHANGED <<browser, exitCode, abortCause>>
       ELSE /\ browser' = "closed"
            /\ pc' = "exit"
            /\ exitCode' = 1
            /\ abortCause' = "db"
            /\ UNCHANGED <<db, written, i, result>>
  /\ scraped' = NoScrape
  /\ UNCHANGED <<engUnused, players>>

\* main after the try of an item: the ledger when the status is not ok, the
\* per-item write, the delay, the next item.
EngStore ==
  /\ pc = "eng_store"
  /\ IF result.status # "ok"
     THEN EngAppendFailedCsv(CurP.name, StripAt(trim(CurP.instagram)), <<result.status>>)
     ELSE UNCHANGED <<ledger, ledgerExists, calls>>
  /\ res' = [res EXCEPT ![CurId] = scraped]
  /\ \E dbOk \in BOOLEAN :
       IF dbOk
       THEN /\ db' = [db EXCEPT ![CurId] = EngStoredRow(@, result, now)]
            /\ written' = written \cup {CurId}
            /\ i' = i + 1
            /\ result' = NoResult
            /\ pc' = "eng_loop"
            /\ UNCHANGED <<browser, exitCode, abortCause>>
       ELSE /\ browser' = "closed"
            /\ pc' = "exit"
            /\ exitCode' = 1
            /\ abortCause' = "db"
            /\ UNCHANGED <<db, written, i, result>>
  /\ scraped' = NoScrape
  /\ UNCHANGED <<engUnused, players>>

\* main: the loop is over, finally quits the driver.
EngEnd ==
  /\ pc = "eng_loop"
  /\ i > Len(players)
  /\ browser' = "closed"
  /\ pc' = "exit"
  /\ exitCode' = 0
  /\ UNCHANGED <<engUnused, scraped, db, players, i, ledgerExists, ledger, calls, result,
                 abortCause, res, written>>

\* Another run of a scraper stores an engagement rate for a player while
\* this run is in its loop.
EngOtherRun ==
  /\ pc \in {"eng_loop", "eng_scrape", "eng_store", "eng_catch"}
  /\ \E id \in DOMAIN db :
       /\ db[id].engagementRate # OTHER_RATE
       /\ db' = [db EXCEPT ![id].engagementRate = OTHER_RATE]
  /\ UNCHANGED <<engUnused, scraped, players, i, pc, browser, ledgerExists, ledger, calls,
                 result, exitCode, abortCause, res, written>>

NextEngage ==
  \/ EngSelect
  \/ EngItem
  \/ EngScrape
  \/ EngCatch
  \/ EngStore
  \/ EngEnd
  \/ EngOtherRun

SpecEngage == InitEngage /\ [][NextEngage]_vars


-----------------------------------------------------------------------------
(* SpecResume: batch runs repeated with a fixed --limit, every item ending ok *)

\* The last day a run starts on.
LastDay == 30

\* The largest --limit given.
MaxLimit == 2

\* The tables at the first run: every player has a handle, and was never
\* checked or was checked with status ok eight days before.
ResumeTables(t) ==
  {[k \in 1..NumPlayers |->
      PlayerRow(NAMES[k], <<ToLowerChar(NAMES[k][1])>>,
                IF k \in checked THEN AllMetrics ELSE NoMetrics,
                IF k \in checked THEN t - 8 ELSE NULL,
                IF k \in checked THEN "ok" ELSE "",
                IF k \in checked THEN t - 8 ELSE NULL)] :
     checked \in SUBSET (1..NumPlayers)}

\* What an item that ends with status ok brings.
OkResult(handle) ==
  Result("ok", StatsUrl(handle),
         [NoScrape EXCEPT !.followers = 100, !.following = 10, !.posts = 5], <<>>)

InitResume ==
  /\ variant \in {"playwright", "selenium"}
  /\ now = 20
  /\ args \in {[force |-> FALSE, onlyMissing |-> FALSE, startFrom |-> <<>>, limit |-> n] :
                 n \in 1..MaxLimit}
  /\ db \in ResumeTables(now)
  /\ db0 = db
  /\ players = <<>>
  /\ pc = "resume_start"
  /\ ledgerExists = FALSE
  /\ ledger = <<>>
  /\ LedgerAtStart
  /\ res = [id \in DOMAIN db |-> NoResult]
  /\ RunIdle
  /\ session = TRUE
  /\ creds = TRUE

\* The variables the repeated runs leave alone.
resumeFixed == <<variant, args, db0, creds, ledgerExists0, ledger0, runs, fetchVars, funVars,
                 navSpacing, delayMs, scraped, shown, diag, loggedIn, prompt, loginEnd,
                 browser, session, ledgerExists, ledger, calls, result, attempt, lastError,
                 loginCtx, exitCode, abortCause, tries, loginCalls>>

\* main of a run: findMany and the filters.
Resume_Select ==
  /\ pc = "resume_start"
  /\ players' = SelectPlayers(db, args, now)
  /\ i' = 1
  /\ pc' = "resume_loop"
  /\ UNCHANGED <<resumeFixed, now, db, res, written>>

\* main of a run: an item is scraped, ends with status ok and is stored.
Resume_Item ==
  /\ pc = "resume_loop"
  /\ i <= Len(players)
  /\ LET r == OkResult(Handle(db[players[i]].instagram)) IN
     /\ db' = [db EXCEPT ![players[i]] = MergedRow(@, r, now)]
     /\ res' = [res EXCEPT ![players[i]] = r]
  /\ written' = written \cup {players[i]}
  /\ i' = i + 1
  /\ UNCHANGED <<resumeFixed, now, players, pc>>

\* The run ends; the next one starts the same day, the day after, or after
\* the freshness window.
Resume_NextRun ==
  /\ pc = "resume_loop"
  /\ i > Len(players)
  /\ \E d \in {0, 1, SKIP_IF_OK_DAYS + 1} :
       /\ now + d <= LastDay
       /\ now' = now + d
  /\ players' = <<>>
  /\ i' = 1
  /\ pc' = "resume_start"
  /\ UNCHANGED <<resumeFixed, db, res, written>>

NextResume ==
  \/ Resume_Select
  \/ Resume_Item
  \/ Resume_NextRun

SpecResume == InitResume /\ [][NextResume]_vars

\* The runs go on: a run that can take a step takes it, and another follows.
SpecResumeLive == SpecResume /\ WF_vars(NextResume)


-----------------------------------------------------------------------------
(* SpecLedgerRace: two batch runs append to the same failure ledger *)

\* The runs, each a process of its own.
RUNS == {1, 2}

\* A run outside appendFailedCsv.
OutsideAppend == [at |-> "outside", exists |-> FALSE, row |-> <<>>]

\* The calls of appendFailedCsv begun, returned or not.
CallsBegun == Len(calls) + Cardinality({r \in RUNS : runs[r].at = "checked"})

InitLedgerRace ==
  /\ variant \in {"playwright", "selenium"}
  /\ now = 20
  /\ args = [force |-> FALSE, onlyMissing |-> FALSE, startFrom |-> <<>>, limit |-> NULL]
  /\ db = <<>>
  /\ db0 = db
  /\ players = <<>>
  /\ pc = "ledger_race"
  /\ ledgerExists \in BOOLEAN
  /\ ledger = IF ledgerExists
              THEN HEADER \o CsvRow(NAMES[3], <<"c">>, <<"blocked">>, StatsUrl(<<"c">>), <<>>)
              ELSE <<>>
  /\ ledgerExists0 = ledgerExists
  /\ ledger0 = ledger
  /\ calls = <<>>
  /\ runs = [r \in RUNS |-> OutsideAppend]
  /\ res = <<>>
  /\ RunIdle
  /\ session = FALSE
  /\ creds = FALSE

\* The variables the appends leave alone.
raceFixed == <<variant, args, now, db, db0, players, i, pc, browser, session,
               creds, ledgerExists0, ledger0, result, attempt, lastError,
               loginCtx, exitCode, abortCause, tries, loginCalls,
               res, written, scraped, navSpacing, delayMs, shown, diag, loggedIn, loginEnd,
               prompt, fetchVars, funVars>>

\* appendFailedCsv of a run up to the write: the directory, `exists`, `row`.
Append_Check ==
  /\ pc = "ledger_race"
  /\ CallsBegun < MaxAppends
  /\ \E r \in RUNS, a \in AppendArgs :
       /\ runs[r].at = "outside"
       /\ runs' = [runs EXCEPT ![r] = [at |-> "checked", exists |-> ledgerExists,
                                       row |-> CsvRow(a[1], a[2], a[3], a[4], a[5])]]
  /\ UNCHANGED <<raceFixed, ledgerExists, ledger, calls>>

\* appendFailedCsv of a run: writeFileSync of the header and the row when
\* `exists` was false, appendFileSync of the row otherwise; the call returns.
Append_Write ==
  /\ pc = "ledger_race"
  /\ \E r \in RUNS :
       /\ runs[r].at = "checked"
       /\ ledger' = FailedCsvAfter(runs[r].exists, ledger, runs[r].row)
       /\ calls' = Append(calls, runs[r].row)
       /\ runs' = [runs EXCEPT ![r] = OutsideAppend]
  /\ ledgerExists' = TRUE
  /\ UNCHANGED raceFixed

NextLedgerRace ==
  \/ Append_Check
  \/ Append_Write

SpecLedgerRace == InitLedgerRace /\ [][NextLedgerRace]_vars


-----------------------------------------------------------------------------
(* SpecSync: ig:sync, the loop of main over the players and upsertMetrics *)

\* Players that ig:sync goes through.
SyncPlayers == 2

\* No record of instagramProfileMetrics for the player.
NoMetricsRecord ==
  [exists |-> FALSE, handle |-> <<>>, followers |-> NULL, following |-> NULL,
   postsCount |-> NULL, lastFetchedAt |-> NULL, lastError |-> <<>>]

\* The record an earlier attempt that failed left, and the one an earlier
\* attempt that succeeded left.
FailedRecord(t) ==
  [NoMetricsRecord EXCEPT !.exists = TRUE, !.handle = <<"a">>, !.lastError = <<"HTTP ", "429">>]

SyncedRecord(t) ==
  [NoMetricsRecord EXCEPT !.exists = TRUE, !.handle = <<"a">>, !.followers = 400,
                          !.following = 7, !.postsCount = 2, !.lastFetchedAt = t]

\* fetchProfileMetrics returned null.
NoSyncData == [null |-> TRUE, followers |-> NULL, following |-> NULL, postsCount |-> NULL]

\* What fetchProfileMetrics returns when it returns data: at least one count.
SyncData ==
  {[null |-> FALSE, followers |-> f, following |-> g, postsCount |-> p] :
     f \in {NULL, 500}, g \in {NULL, 8}, p \in {NULL, 3}}
    \ {[null |-> FALSE, followers |-> NULL, following |-> NULL, postsCount |-> NULL]}

\* The messages of the errors fetchProfileMetrics throws.
SyncErrors == {<<"HTTP ", "429">>, <<"fetch failed">>}

\* The record after prisma.instagramProfileMetrics.upsert: `create` when
\* there is none, `update` otherwise; a member that is undefined is left out
\* of the write, so the column keeps its value (its default in a create).
UpsertedRecord(row, handle, data, errorText, t) ==
  [exists |-> TRUE,
   handle |-> handle,
   followers |-> IF ~data.null /\ data.followers # NULL THEN data.followers ELSE row.followers,
   following |-> IF ~data.null /\ data.following # NULL THEN data.following ELSE row.following,
   postsCount |-> IF ~data.null /\ data.postsCount # NULL THEN data.postsCount
                  ELSE row.postsCount,
   lastFetchedAt |-> IF ~data.null THEN t ELSE row.lastFetchedAt,
   lastError |-> IF errorText # <<>> THEN errorText ELSE row.lastError]

\* The result of syncOne, with what it gave to upsertMetrics.
SyncResult(ok, upserted, data, error) ==
  [ok |-> ok, upserted |-> upserted, data |-> data, error |-> error]

NoSyncResult == SyncResult(FALSE, FALSE, NoSyncData, <<>>)

InitSync ==
  /\ variant = "playwright"
  /\ now = 20
  /\ args = [force |-> FALSE, onlyMissing |-> FALSE, startFrom |-> <<>>, limit |-> NULL]
  /\ db \in [1..SyncPlayers -> {NoMetricsRecord, FailedRecord(now - 1), SyncedRecord(now - 1)}]
  /\ db0 = db
  /\ players \in [1..SyncPlayers -> {<<"@", "A">>, <<" ">>}]
  /\ pc = "sync_loop"
  /\ ledgerExists = FALSE
  /\ ledger = <<>>
  /\ LedgerAtStart
  /\ res = [id \in 1..SyncPlayers |-> NoSyncResult]
  /\ RunIdle
  /\ session = FALSE
  /\ creds = FALSE

\* The variables ig:sync leaves alone.
syncFixed == <<cfg, players, browser, session, ledgerExists, ledger, calls, result, attempt,
               lastError, loginCtx, abortCause, tries, loginCalls>>

\* main: sleep(DELAY_MS) and syncOne of the i-th player, whose handle is
\* players[i]: no handle, no data, data, or an error of the fetch; the upsert
\* itself may fail, which main logs.
Sync_One ==
  /\ pc = "sync_loop"
  /\ i <= Len(players)
  /\ LET handle == trim(players[i]) IN
     IF handle = <<>>
     THEN /\ res' = [res EXCEPT ![i] = SyncResult(FALSE, FALSE, NoSyncData, <<"No handle">>)]
          /\ UNCHANGED <<db, written>>
     ELSE \E data \in SyncData \cup {NoSyncData}, thrown \in SyncErrors \cup {<<>>},
             dbOk \in BOOLEAN :
            LET given == IF thrown # <<>> THEN NoSyncData ELSE data
                msg == IF thrown # <<>> THEN thrown
                       ELSE IF data.null THEN <<"No og:description or counts found">>
                       ELSE <<>>
                storedHandle == IF given.null /\ thrown = <<>> THEN handle ELSE Handle(handle)
            IN /\ res' = [res EXCEPT ![i] = SyncResult(~given.null /\ dbOk, dbOk, given, msg)]
               /\ IF dbOk
                  THEN /\ db' = [db EXCEPT ![i] = UpsertedRecord(@, storedHandle, given, msg, now)]
                       /\ written' = written \cup {i}
                  ELSE UNCHANGED <<db, written>>
  /\ i' = i + 1
  /\ UNCHANGED <<syncFixed, pc, exitCode>>

\* main: the loop is over, the totals are logged.
Sync_End ==
  /\ pc = "sync_loop"
  /\ i > Len(players)
  /\ pc' = "exit"
  /\ exitCode' = 0
  /\ UNCHANGED <<syncFixed, db, i, res, written>>

NextSync ==
  \/ Sync_One
  \/ Sync_End

SpecSync == InitSync /\ [][NextSync]_vars

-----------------------------------------------------------------------------
(* The claims *)

\* The attempt on id was stored and brought a value for metric m.
Fresh(id, m) == res[id].status = "ok" /\ res[id][m] # NULL

NeverNulled ==
  \A id \in DOMAIN db : \A m \in MetricFields : db0[id][m] # NULL => db[id][m] # NULL

\* C1, as claimed: after an attempt whose update was applied, each stored
\* metric equals the scraped value if that value is non-null and the status is
\* ok, and its value before the attempt otherwise; no metric known before is
\* null afterwards.  (avgLikes and avgComments are scraped in halves.)
C1_StoredEqualsScraped ==
  /\ \A id \in written :
       /\ \A m \in {"followers", "following", "posts", "engagementRate"} :
            db[id][m] = IF Fresh(id, m) THEN res[id][m] ELSE db0[id][m]
       /\ \A m \in {"avgLikes", "avgComments"} :
            IF Fresh(id, m) THEN 2 * db[id][m] = res[id][m] ELSE db[id][m] = db0[id][m]
  /\ NeverNulled

\* C1, amended: after an attempt whose update was applied, each stored metric
\* equals the scraped value (rounded to the nearest integer for avgLikes and
\* avgComments) if that value is non-null and the status is ok, and its value
\* before the attempt otherwise; a player whose update was not applied keeps
\* its row; no metric known before is null afterwards.
C1_MergeRule ==
  /\ \A id \in written :
       /\ \A m \in {"followers", "following", "posts", "engagementRate"} :
            db[id][m] = IF Fresh(id, m) THEN res[id][m] ELSE db0[id][m]
       /\ \A m \in {"avgLikes", "avgComments"} :
            db[id][m] = IF Fresh(id, m) THEN Round(res[id][m]) ELSE db0[id][m]
  /\ \A id \in DOMAIN db \ written : db[id] = db0[id]
  /\ NeverNulled

\* C1, witness: an ok attempt that brought no followers and 1.5 average likes
\* was stored over a row that had both, and a failed attempt was stored over a
\* row with known metrics.
C1_Witness ==
  /\ \E id \in written :
       /\ res[id].status = "ok"
       /\ res[id].followers = NULL /\ db0[id].followers # NULL
       /\ res[id].avgLikes = 3 /\ db0[id].avgLikes # NULL /\ db[id].avgLikes = 2
  /\ \E id \in written :
       /\ res[id].status \notin {"ok", ""}
       /\ db0[id].followers # NULL

\* The loop has finished the iteration of players[k].
Passed(k) == k < i \/ (k = i /\ pc = "delay")

\* C2, as claimed: every player whose iteration the loop has finished has its
\* igSbLastCheckedAt and igSbStatus written in that iteration.
C2_AlwaysStamped ==
  \A k \in 1..Len(players) :
    Passed(k) =>
      /\ players[k] \in written
      /\ db[players[k]].igSbLastCheckedAt = now
      /\ db[players[k]].igSbStatus = res[players[k]].status

\* How many times tok occurs in text.
CountToken(text, tok) == Cardinality({k \in 1..Len(text) : text[k] = tok})

\* C3: starting from a missing ledger, after n appendFailedCsv calls the file
\* is one header line followed by the n rows in call order, and every call
\* leaves the content that was there as a prefix of the new content.
C3_LedgerAppendOnly ==
  /\ [](~ledgerExists0 =>
          /\ ledger = (IF calls = <<>> THEN <<>> ELSE HEADER \o Concat(calls))
          /\ calls # <<>> => /\ CountToken(ledger, HEADER[1]) = 1
                             /\ CountToken(ledger, "\n") = Len(calls) + 1)
  /\ [][IsPrefix(ledger, ledger') /\ (ledgerExists => ledgerExists')]_vars

\* C3, witness: two different rows appended to a ledger that did not exist.
C3_Witness ==
  /\ ~ledgerExists0
  /\ Len(calls) = 2
  /\ calls[1] # calls[2]
  /\ ledger = HEADER \o calls[1] \o calls[2]

\* The players, in loop order, for which the loop obtained a status other than ok.
NonOk == SelectSeq(players, LAMBDA id : res[id].status \notin {"", "ok"})

\* C4: the rows appended by a run are those of the items with a status other
\* than ok, one each and in loop order (the last such item has none while the
\* run died in its append); the file is what was there followed by these
\* rows; a run that completes has appended as many rows as items are not ok.
C4_LedgerRows ==
  /\ Len(calls) = Len(NonOk) - (IF abortCause = "ledger" THEN 1 ELSE 0)
  /\ \A j \in 1..Len(calls) :
       IsPrefix(CsvField(db0[NonOk[j]].name) \o <<",">>, calls[j])
  /\ ledger = (IF ledgerExists0 \/ calls = <<>> THEN ledger0 ELSE HEADER) \o Concat(calls)
  /\ (pc = "exit" /\ exitCode = 0) =>
       Len(calls) = Cardinality({k \in 1..Len(players) : res[players[k]].status # "ok"})

\* C4, witness: the Selenium run over three players ends with ok and 5000
\* followers for the first, not_found and blocked for the others, who keep
\* their metrics, and two ledger rows.
C4_Witness ==
  /\ variant = "selenium"
  /\ pc = "exit" /\ exitCode = 0
  /\ Len(players) = 3
  /\ written = {players[1], players[2], players[3]}
  /\ db[players[1]].igSbStatus = "ok" /\ db[players[1]].followers = 5000
  /\ db[players[2]].igSbStatus = "not_found"
  /\ db[players[3]].igSbStatus = "blocked"
  /\ \A k \in 2..3 :
       /\ \A m \in MetricFields : db[players[k]][m] = db0[players[k]][m]
       /\ db[players[k]].igSbLastCheckedAt = now
  /\ Len(calls) = 2

\* C5, as claimed: a run that launched the browser has closed it when it ends.
C5_BrowserClosed == (pc = "exit" /\ browser # "none") => browser = "closed"

\* C6, as claimed: a run ends early only because the browser could not be
\* launched or the login failed, never because of a failure within an item.
C6_ItemFailuresContained ==
  (pc = "exit" /\ exitCode = 1) => abortCause \in {"launch", "auth"}

\* C7: when the login at the start of the run fails, loginToSocialBlade has
\* been called once, the process has exited with status 1, and no stats page
\* was visited, no player row and no ledger row written.
C7_AuthFailureFatal ==
  (abortCause = "auth" /\ loginCtx = "initial") =>
    /\ pc = "exit" /\ exitCode = 1
    /\ loginCalls = 1
    /\ tries = 0
    /\ written = {} /\ db = db0
    /\ calls = <<>> /\ ledger = ledger0 /\ ledgerExists = ledgerExists0
    /\ \A id \in DOMAIN res : res[id] = NoResult

\* C7, witness: the Playwright run ended at its first login, with no session
\* and no credentials.
C7_Witness ==
  /\ variant = "playwright"
  /\ abortCause = "auth" /\ loginCtx = "initial"
  /\ ~session /\ ~creds
  /\ pc = "exit"
  /\ players # <<>>

\* C8, as claimed: an item whose navigation was redirected to the login page
\* sees at most one re-login and at most two tries of its stats page.
C8_OneReloginOneRetry ==
  (loginCtx = "relogin" /\ loginCalls >= 1) => (loginCalls <= 1 /\ tries <= 2)

\* The selection as claimed: freshness, only-missing, start-from, and only then the limit.
ClaimedSelection(table, a, t) ==
  LimitCut(
    StartFromCut(table,
      OnlyMissingFilter(table,
        FreshnessFilter(table, findMany(table), a.force, t), a.onlyMissing),
      a.startFrom),
    a.limit)

\* C9, as claimed: the players of a run are the name-sorted list filtered by
\* freshness, then by only-missing, then cut at the start-from name, and only
\* then truncated to the limit.
C9_SelectionOrder == pc # "start" => players = ClaimedSelection(db, args, now)

\* The players that reach the freshness filter.
Candidates == LimitCut(StartFromCut(db, findMany(db), args.startFrom), args.limit)

InSeq(x, seq) == \E k \in 1..Len(seq) : seq[k] = x

\* C10: without force a player that reaches the freshness filter is selected
\* if and only if it was never checked, or its last check is more than 7 days
\* old, or its last status is not ok (and, under --only-missing, it misses a
\* metric); with force no player is excluded by freshness.
C10_FreshnessFilter ==
  pc # "start" =>
    \A k \in 1..Len(Candidates) :
      LET id == Candidates[k]
          p == db[id]
          stale == \/ p.igSbLastCheckedAt = NULL
                   \/ now - p.igSbLastCheckedAt > 7
                   \/ p.igSbStatus # "ok"
      IN InSeq(id, players) <=> ((args.force \/ stale) /\ (args.onlyMissing => IsMissing(p)))

\* C10, witness: without force, a player checked a day ago with ok is left
\* out and a player checked a day ago with blocked is selected; or a player
\* checked 8 days ago with ok is selected and one checked 7 days ago is not.
C10_Witness ==
  /\ pc # "start"
  /\ ~args.force /\ ~args.onlyMissing
  /\ Len(Candidates) = 2
  /\ db[1].igSbLastCheckedAt = now - 1 /\ db[1].igSbStatus = "ok"
  /\ db[2].igSbLastCheckedAt = now - 1 /\ db[2].igSbStatus = "blocked"
  /\ players = <<2>>

\* The players that reach the only-missing filter.
BeforeOnlyMissing == FreshnessFilter(db, Candidates, args.force, now)

\* C11, as claimed: under --only-missing a player that reaches the filter is
\* kept if and only if one of followers, following, posts, engagementRate,
\* avgLikes, avgComments is null; so one that misses only `following` is kept.
C11_OnlyMissingTracked ==
  (pc # "start" /\ args.onlyMissing) =>
    \A k \in 1..Len(BeforeOnlyMissing) :
      LET id == BeforeOnlyMissing[k] IN
      InSeq(id, players) <=> (\E m \in MetricFields : db[id][m] = NULL)

\* C12, as claimed: with --startFrom=S every selected player has a name
\* >= S, and none is selected when no name is >= S.
C12_StartFromFloor ==
  (pc # "start" /\ args.startFrom # <<>>) =>
    \A k \in 1..Len(players) : StrGeq(db[players[k]].name, args.startFrom)


\* The outcomes of an attempt after which the code goes on to another one.
RetryableOutcomes == {"429", "500", "error", "timeout"}

\* C13: a further attempt is made only after a 429, a 5xx or a transport
\* error (a timeout included); a response with any other status goes to the
\* reading of its body and is returned with that status and text; no call
\* makes more than retries + 1 attempts; and a call that throws has used
\* all its attempts and throws the last failure, which for a 429 or a 5xx
\* names the status (and carries it as `status` in fetchTextWithRetry).
C13_RetryRule ==
  fpc # "idle" =>
    /\ nAttempts <= retries + 1
    /\ nAttempts = fetchAttempt + (IF fpc = "attempt" THEN 0 ELSE 1)
    /\ (fpc = "sleep" \/ (fetchAttempt > 0 /\ fpc \in {"attempt", "wait"}))
         => lastOutcome \in RetryableOutcomes
    /\ fpc \in {"body", "returned"}
         => /\ resStatus \in {200, 404}
            /\ lastOutcome = ToString(resStatus)
    /\ fpc = "returned"
         => /\ ret.text = resText
            /\ client = "fetchTextWithRetry" => ret.status = resStatus
    /\ fpc = "thrown"
         => /\ nAttempts = retries + 1
            /\ lastOutcome \in RetryableOutcomes
            /\ lastOutcome \in {"429", "500"}
                 => /\ lastErr.msg = <<"HTTP ", lastOutcome>>
                    /\ lastOutcome = ToString(resStatus)
                    /\ client = "fetchTextWithRetry" => lastErr.status = resStatus
            /\ lastOutcome = "error" => lastErr \in {TransportError, LongTransportError}
            /\ lastOutcome = "timeout" => lastErr = AbortError

\* fetchTextWithRetry has thrown the 500 of its last attempt after a 429 before it.
C13_Witness ==
  /\ client = "fetchTextWithRetry"
  /\ fpc = "thrown"
  /\ retries >= 2
  /\ nAttempts = retries + 1
  /\ n429 >= 1
  /\ lastErr.status = 500

\* The delay the clients are to sleep after attempt number a (from 0).
DelayAfter(cl, a) ==
  IF cl = "fetchTextWithRetry" /\ 1000 * 2 ^ a > 15000 THEN 15000 ELSE 1000 * 2 ^ a

\* C14: one delay has been slept for each attempt that was followed by
\* another; the delay before attempt j + 1 is 1000 * 2^j ms, at most
\* 15000 ms in fetchTextWithRetry; the delays never decrease and grow
\* below 15000 ms; and after 429s on all the attempts before it, an
\* answer of 200 is read and returned.
C14_Backoff ==
  /\ Len(delays) = fetchAttempt
  /\ \A j \in 1..Len(delays) : delays[j] = DelayAfter(client, j - 1)
  /\ \A j \in 1..(Len(delays) - 1) :
       /\ delays[j] <= delays[j + 1]
       /\ delays[j] < 15000 => delays[j] < delays[j + 1]
  /\ (fpc # "idle" /\ n429 = nAttempts - 1 /\ lastOutcome = "200")
       => /\ fpc \in {"body", "returned"}
          /\ fpc = "returned" => (ret.text = resText /\ resStatus = 200)

\* Five 429s, then a 200 that is returned; the last delay was the capped one.
C14_Witness ==
  /\ client = "fetchTextWithRetry"
  /\ fpc = "returned"
  /\ n429 = 5
  /\ nAttempts = 6
  /\ resStatus = 200
  /\ delays = <<1000, 2000, 4000, 8000, 15000>>

\* C15: a call of fetchTextWithRetry that waits for the answer or for its
\* body goes on from there.  The code violates it: the timer is cleared when
\* the headers arrive, and a body that never ends is awaited for ever.
C15_FetchTerminates ==
  (client = "fetchTextWithRetry" /\ fpc \in {"wait", "body"})
    ~> (fpc \in {"sleep", "returned", "thrown"})

\* C16: once a query of findProfileUrl has ended in 429 on its last
\* attempt, scrapeOne has returned the status blocked, and no profile page
\* has been fetched for the name.
C16_BlockedNotAbsent ==
  searchEnded429 =>
    /\ stage = "done"
    /\ outRow.status = "blocked"
    /\ profileCalls = 0

\* The second query ended in 429 after the first had failed otherwise.
C16_Witness ==
  /\ searchEnded429
  /\ outRow.status = "blocked"
  /\ nAttempts = retries + 1
  /\ n429 >= 2
  /\ lastErr.status = 429


LOCATORS ==
  {"bestInstagramProfileFromDdg", "extractInstagramUrlFromDdgHtml", "ddgSearchProfileUrl"}

\* The page links to the profile of realuser and to a post, and to nothing else.
PostAndProfile(html) ==
  /\ \E k \in 1..Len(html) : html[k] = Href("abs", Url(WWW_INSTAGRAM, <<REALUSER>>))
  /\ \E k \in 1..Len(html) : html[k] = Href("abs", Url(WWW_INSTAGRAM, <<<<"p">>, ABC123>>))
  /\ Len(html) = 2

\* C17: the URL a locator returns never has a non-profile segment as its
\* first path segment, and from a page with a post link and the link to
\* realuser the locators return the profile of realuser.  The locator of
\* ig:sync violates it.
C17_NoNonProfileUrl ==
  (fun \in LOCATORS /\ output.done) =>
    /\ ~output.value.null =>
         /\ output.value.url.segs # <<>>
         /\ toLowerCase(output.value.url.segs[1]) \notin NON_PROFILE_SEGMENTS
    /\ PostAndProfile(input.html) =>
         /\ ~output.value.null
         /\ output.value.url = Url(WWW_INSTAGRAM, <<REALUSER>>)

\* A decimal number: digits with at most one point.
IsDecimal(num) ==
  /\ \A k \in 1..Len(num) : IsNumChar(num[k])
  /\ \E k \in 1..Len(num) : IsDigit(num[k])
  /\ Cardinality({k \in 1..Len(num) : num[k] = "."}) <= 1

\* What the count of a string is to be: round(number * scale) for a decimal
\* number with an optional suffix, null for anything else.
ExpectedCount(str) ==
  LET t == RemoveChars(trim(str), {","})
      n == PrefixLen(t, IsNumChar)
      num == SubSeq(t, 1, n)
      rest == Drop(t, n)
      suffix == Drop(rest, PrefixLen(rest, IsSpace))
  IN IF ~IsDecimal(num) THEN NULL
     ELSE IF suffix = <<>> THEN RoundScaled(parseFloat(num), 0)
     ELSE IF Len(suffix) = 1 /\ suffix[1] \in {"K", "M", "B", "k", "m", "b"}
          THEN RoundScaled(parseFloat(num), ScaleExp(suffix[1]))
     ELSE NULL

\* C18: the count parsers return round(number * scale) for a decimal
\* number with an optional K, M or B suffix, and null for every other
\* string.  The code violates it: digits and points in any arrangement are
\* taken for a number.
C18_CountParser ==
  (fun \in {"parseCount", "parseCountKmb"} /\ output.done) =>
    output.value = ExpectedCount(input)

\* C19: the summary parser returns null when no label matches in the
\* description, also when the meta tag is there.  The code violates it: with
\* the meta tag it returns an object, of three nulls.
C19_NullWithoutLabels ==
  (/\ fun = "parseOgDescription"
   /\ output.done
   /\ \A label \in {"followers", "following", "postsCount"} :
        ~input.meta \/ LabelMatch(input.content, label) = 0)
    => output.value.null


\* One of the six metrics of r has a value.
AnyMetric(r) ==
  \E v \in {r.followers, r.following, r.posts, r.engagementRate, r.avgLikes, r.avgComments} :
    v # NULL

\* C20: when the loop has an item's result, the status is ok only with
\* one or more metrics extracted (in both scrapers, so also where the
\* Selenium test of `missing` decides); a Playwright result of another
\* status carries no metric; a Selenium page that yielded a metric gave
\* the status ok and its metrics; and an attempt that goes on to a retry
\* has yielded none.
C20_OkIffAnyMetric ==
  /\ pc = "record" =>
       /\ result.status = "ok" => AnyMetric(result)
       /\ (variant = "playwright" /\ result.status # "ok") => ~AnyMetric(result)
       /\ (variant = "playwright" /\ result.status \notin {"ok", "not_found"}) =>
            result.status = "error"
       /\ (variant = "selenium" /\ AnyMetric(scraped)) =>
            /\ result.status = "ok"
            /\ result = Result("ok", result.url, scraped, <<>>)
       /\ (variant = "selenium" /\ result.status = "ok") => AnyMetric(scraped)
  /\ pc = "sel_retry" => ~AnyMetric(scraped)

\* A Selenium item is ok with fewer than all labels missing, followers not among its metrics.
C20_Witness ==
  /\ variant = "selenium"
  /\ pc = "record"
  /\ result.status = "ok"
  /\ result.followers = NULL
  /\ result.posts # NULL
  /\ 0 < Len(result.missing)
  /\ Len(result.missing) < Len(STAT_LABELS)


\* C21: a player's instagramUpdatedAt differs from what it was at the start
\* only when the run has written the player's row from a result that holds
\* one or more metrics.  The cron handler violates it: it stamps the row
\* whenever parseProfileJson returns an object, also one of two nulls.
C21_StampOnlyWithMetric ==
  \A id \in DOMAIN db :
    db[id].instagramUpdatedAt # db0[id].instagramUpdatedAt =>
      /\ id \in written
      /\ AnyMetric(res[id])


\* The positions of main at which a request for the current item is under way or about to be made.
NavigationPcs == {"pw_scrape", "pw_retry", "sel_nav", "sel_renav", "sel_page", "sel_retry", "login",
                  "login_form", "await_enter", "login_submit"}

\* C22: the items before the current one have their result and their
\* database write (an empty handle in the Playwright script has its ledger
\* row only), the items after it have had nothing done for them, and while
\* the current item is still being scraped nothing of it is written.
C22_OneInFlight ==
  \A k \in 1..Len(players) :
    /\ k < i =>
         /\ res[players[k]].status # ""
         /\ \/ players[k] \in written
            \/ variant = "playwright" /\ Handle(db0[players[k]].instagram) = <<>>
    /\ k > i =>
         /\ res[players[k]] = NoResult
         /\ players[k] \notin written
         /\ db[players[k]] = db0[players[k]]
    /\ (k = i /\ pc \in NavigationPcs) =>
         /\ players[k] \notin written
         /\ db[players[k]] = db0[players[k]]

\* The navigation for the second item is about to start, the first item is written, the third untouched.
C22_Witness ==
  /\ i = 2
  /\ Len(players) >= 3
  /\ pc \in {"pw_scrape", "sel_nav"}
  /\ tries = 0
  /\ players[1] \in written
  /\ db[players[1]] # db0[players[1]]
  /\ res[players[3]] = NoResult


\* C23: no request of the HTTP-only run (a search query or a profile
\* fetch) begins with no sleep of main since the request before it.  The
\* code violates it: main sleeps between names only, and the second query
\* and the profile fetch of a name follow the request before them at once.
C23_RequestsPaced == pacing # "unpaced"


\* C24: no item's stats page is navigated to for the first time with no
\* randomDelay of main since the first navigation of the item before it,
\* and the delay that main slept last is one of [MIN_DELAY_MS, MAX_DELAY_MS].
C24_ItemsSpaced ==
  /\ navSpacing # "unspaced"
  /\ navSpacing = "delayed" =>
       /\ delayMs # NULL
       /\ MIN_DELAY_MS <= delayMs
       /\ delayMs <= MAX_DELAY_MS
  /\ (i > 1 /\ pc \in {"pw_scrape", "sel_nav"} /\ tries = 0) => navSpacing \in {"none", "delayed"}

\* The second item's stats page has just been requested, after the first item's page and a delay.
C24_Witness ==
  /\ i = 2
  /\ tries = 1
  /\ pc \in {"sel_page", "record"}
  /\ navSpacing = "nav"
  /\ res[players[1]].status = "ok"
  /\ players[1] \in written


\* The metrics of a row.
MetricsOf(row) == [f \in MetricFields |-> row[f]]

\* C25: an item whose loaded stats page shows a bot-challenge indicator ends
\* with status blocked, one whose page shows not-found wording and no
\* challenge ends with not_found; such a page is not followed by another
\* attempt for the item, and the update of the item writes no metric.
\* The code violates it: scrapePlayer of the Playwright scraper has no test
\* for a bot challenge.
C25_TerminalClassification ==
  /\ (pc = "record" /\ shown.loaded) =>
       /\ shown.blocked => result.status = "blocked"
       /\ (shown.notFound /\ ~shown.blocked) => result.status = "not_found"
  /\ pc = "sel_retry" => ~(shown.blocked \/ shown.notFound)
  /\ (pc = "delay" /\ result.status \in {"blocked", "not_found"}) =>
       MetricsOf(db[CurId]) = MetricsOf(db0[CurId])

\* C25 for the Selenium scraper whose debug directory can be made.
C25_SeleniumClassification ==
  (variant = "selenium" /\ lastError # <<"exception">>) => C25_TerminalClassification


\* C26: in the Selenium scraper an item that ends with a status other than ok
\* has had saveDiagnostics called with that status, and an item for which
\* saveDiagnostics was called with blocked or not_found has that status.
\* The code violates it: an empty handle returns its error before any
\* capture, and a debug directory that cannot be made throws out of the
\* capture of a blocked or not-found page into the catch of the attempt.
C26_DiagnosticsAttempted ==
  variant = "selenium" =>
    /\ (pc = "record" /\ result.status # "ok") => diag = result.status
    /\ diag \in {"blocked", "not_found"} => result.status = diag

\* C26 without the empty handles and without the failure to make the debug directory.
C26_CaptureWhenNavigated ==
  (variant = "selenium" /\ pc = "record" /\ result.status # "ok"
     /\ result.error # <<"empty_handle">>) => diag = result.status


\* C27 as stated: the submit of the login form is reached only after the
\* operator's Enter.  The Selenium scraper violates it: it asks only
\* `if (loginFormStillVisible)`.
C27_SubmitOnlyAfterEnter == pc = "login_submit" => prompt = "entered"

\* C27: whenever loginToSocialBlade asks the operator (always in the
\* Playwright scraper, in the Selenium scraper when the login form is still
\* visible after the credentials are typed in), the submit of the form comes
\* after the operator's Enter; the submit is reached without Enter only in the
\* Selenium scraper with the form no longer visible; and while the run waits
\* for Enter its only step is that Enter, which submits, navigates and writes
\* nothing.
C27_SubmitAfterPrompt ==
  /\ [](pc = "login_submit" =>
          /\ prompt \in {"entered", "not_visible"}
          /\ variant = "playwright" => prompt = "entered")
  /\ [](pc = "await_enter" => prompt = "waiting")
  /\ [][pc = "await_enter" =>
          /\ pc' = "login_submit"
          /\ prompt' = "entered"
          /\ UNCHANGED <<db, written, tries, ledger, calls, session, browser, res>>]_vars

\* The operator has pressed Enter during the re-login of an item, and the submit is next.
C27_Witness ==
  /\ pc = "login_submit"
  /\ prompt = "entered"
  /\ loginCtx = "relogin"


\* Where main is between the head of an iteration and its end.
ItemPcs == {"pw_scrape", "pw_retry", "sel_nav", "sel_renav", "sel_page", "sel_retry",
            "record", "update", "delay"}

\* C28: no stats page of a player is navigated to and no row of a player is
\* written before a call of loginToSocialBlade has returned; once the browser
\* is closed main is at its exit, and from there the run makes no step: no
\* navigation, no login and no write.
C28_RunOrdering ==
  /\ []((pc \in ItemPcs \/ tries > 0 \/ written # {} \/ shown.loaded \/ i > 1) => loggedIn)
  /\ [](loggedIn => browser # "none")
  /\ [](browser = "closed" => pc = "exit")
  /\ [][pc # "exit"]_vars

\* The browser is closed at the end of a run that logged in through the form and wrote a row.
C28_Witness ==
  /\ browser = "closed"
  /\ pc = "exit"
  /\ exitCode = 0
  /\ loggedIn
  /\ written # {}


\* loginToSocialBlade past the check of the credentials: the form, the prompt, the submit.
FormPcs == {"login_form", "await_enter", "login_submit"}

UserOf(html, k) == trim(toLowerCase(html[k].url.segs[1]))

\* The hrefs the locator of ig:sync takes as profile links: written out, on
\* instagram.com or www.instagram.com, one path segment, a user name.
ValidLinks(html) == {k \in 1..Len(html) : DirectMatch(html[k]) /\ IsUser(UserOf(html, k))}

\* The hrefs the locator of the HTTP-only scraper takes as profile links.
ProfileCandidates(html) ==
  {k \in 1..Len(html) :
     html[k].kind \in {"abs", "redirect"} /\ ~normalizeInstagramProfileUrl(html[k].url).null}

\* The least of a non-empty set of positions.
First(S) == CHOOSE k \in S : \A j \in S : k <= j

STATUS == {"ok", "not_found", "blocked", "parse_failed", "invalid_name", "fetch_failed"}

\* C31: the row scrapeOne returns has a status of STATUS, an error text that
\* is empty exactly when the status is ok and is never longer than 200, and
\* with status ok at least one of followers, following, postsCount; a fetch
\* that threw is always taken up by the catch of findProfileUrl or of scrapeOne.
C31_RowWellFormed ==
  /\ (client = "fetchTextWithRetry" /\ stage = "done") =>
       /\ outRow.status \in STATUS
       /\ (outRow.error = <<>>) <=> (outRow.status = "ok")
       /\ Len(outRow.error) <= CLAMP
       /\ outRow.status = "ok" =>
            (outRow.followers # <<>> \/ outRow.following # <<>> \/ outRow.postsCount # <<>>)
  /\ (client = "fetchTextWithRetry" /\ fpc = "thrown" /\ stage # "done") =>
       /\ stage \in {"q1", "q2", "profile"}
       /\ ENABLED (FindProfileUrl_Query \/ ScrapeOne_Profile)

\* The fetch of the profile failed with a message of more than 200 characters, cut in the row.
C31_Witness ==
  /\ client = "fetchTextWithRetry"
  /\ stage = "done"
  /\ outRow.status = "fetch_failed"
  /\ lastErr = LongTransportError
  /\ Len(outRow.error) = CLAMP


\* C32, as claimed: scrapeOne reports not_found only when at least one of
\* the two search queries returned a response; a name whose queries all
\* failed after their retries is not reported as not_found.
C32_NotFoundNeedsResponse ==
  (client = "fetchTextWithRetry" /\ stage = "done" /\ outRow.status = "not_found")
    => searchReturned >= 1

\* What the code does keep: a query that ended in a 429 is never reported
\* as not_found, and a not_found row follows two finished queries.
C32_NotFoundAfterBothQueries ==
  (client = "fetchTextWithRetry" /\ stage = "done" /\ outRow.status = "not_found")
    => /\ ~searchEnded429
       /\ fpc \in {"returned", "thrown"}
       /\ fpc = "thrown" => lastOutcome \in {"500", "error", "timeout"}


\* What scrapeProfileStatsAndRecentPosts extracted holds a metric.
AnyEngMetric(s) ==
  s.followers # NULL \/ s.totalPosts # NULL \/ s.avgLikes # NULL \/ s.avgComments # NULL

\* C33, as claimed: an item of the engagement scraper is stored with status
\* ok only if a metric was extracted from its profile; a page that yields no
\* metric is stored with another status and has a record in the ledger.
C33_OkNeedsMetric ==
  \A id \in written :
    /\ res[id].status = "ok" => AnyEngMetric(res[id])
    /\ ~AnyEngMetric(res[id]) =>
         \E k \in 1..Len(calls) :
           calls[k] = EngCsvRow(db0[id].name, StripAt(trim(db0[id].instagram)),
                                <<res[id].status>>)

\* What the code does keep: every item stored with a status other than ok
\* has its record in the ledger, with that status as the reason.
C33_FailureRecorded ==
  \A id \in written :
    res[id].status \notin {"ok", "error"} =>
      /\ ledgerExists
      /\ \E k \in 1..Len(calls) :
           calls[k] = EngCsvRow(db0[id].name, StripAt(trim(db0[id].instagram)),
                                <<res[id].status>>)

\* C37, as claimed: when another run has stored an engagement rate for the
\* player since the selection and the attempt extracted none, the per-item
\* write leaves the stored rate as the other run wrote it.
C37_WriteKeepsNewerRate ==
  [][(EngStore /\ scraped.engagementRate = NULL /\ db[CurId].engagementRate = OTHER_RATE
        /\ db0[CurId].engagementRate # OTHER_RATE)
       => db'[CurId].engagementRate = OTHER_RATE]_vars

\* What the code does keep: the write of an item whose scrape threw stores
\* the check time and the status only.
C37_CatchKeepsMetrics ==
  [][(EngCatch /\ pc' # "exit")
       => db'[CurId] = [db[CurId] EXCEPT !.igEngagementLastCheckedAt = now,
                                         !.igEngagementStatus = "error"]]_vars


\* The number ends in a K, M or B suffix.
HasSuffix(number) == number[Len(number)] \in {"K", "M", "B"}

\* The parsed number v equals the integer n.
NumEquals(v, n) == ~v.null /\ n # NULL /\ v.mant = n * 10 ^ v.dec

\* C34, as claimed: for a count label whose block text is a number with a
\* K, M or B suffix beside the label, the extracted metric equals
\* parseCountKmb of that number.
C34_SuffixedCountExtracted ==
  (fun = "scrapePlayer" /\ output.done /\ input.label \in COUNT_LABELS \cup AVERAGE_LABELS
     /\ HasSuffix(input.number))
    => NumEquals(output.value, parseCountKmb(input.number))

\* What the code does keep: a number of digits and commas beside a count
\* label is extracted as parseCountKmb of it.
C34_PlainCountExtracted ==
  (fun = "scrapePlayer" /\ output.done /\ input.label \in COUNT_LABELS \cup AVERAGE_LABELS
     /\ (\A k \in 1..Len(input.number) : IsDigit(input.number[k]) \/ input.number[k] = ","))
    => NumEquals(output.value, parseCountKmb(input.number))


\* C35, as claimed: with runs repeated under a fixed --limit, without
\* --force and --startFrom, every player that has a handle is scraped after
\* finitely many runs.
C35_EveryoneScraped ==
  <>(\A id \in DOMAIN db : db[id].instagram # <<>> => id \in written)

\* What the code does: no run ever scrapes a player beyond the first
\* `limit` players in the order of the names.
C35_OnlyFirstScraped ==
  \A id \in written : \E k \in 1..args.limit : findMany(db)[k] = id


\* C36, as claimed: whatever the interleaving of the appendFailedCsv calls
\* of two runs, once the calls have returned the file holds the header
\* exactly once and one row for every call that returned.
C36_NoRecordLost ==
  (pc = "ledger_race" /\ calls # <<>> /\ \A r \in RUNS : runs[r].at = "outside") =>
    /\ CountToken(ledger, HEADER[1]) = 1
    /\ CountToken(ledger, "\n") = CountToken(ledger0, "\n") + Len(calls)
                                    + (IF ledgerExists0 THEN 0 ELSE 1)

\* What the code does keep: when the file exists before the first call,
\* every interleaving leaves the old content followed by the rows of the
\* calls in the order of their writes.
C36_ExistingLedgerKept ==
  (pc = "ledger_race" /\ ledgerExists0) => ledger = ledger0 \o Concat(calls)


\* C38, as claimed: after a sync of a player that stored data without an
\* error, the stored lastError is empty, whatever an earlier attempt left.
C38_ErrorCleared ==
  pc \in {"sync_loop", "exit"} =>
    \A id \in written : res[id].ok => db[id].lastError = <<>>

\* What the code does keep: a sync that stored data stamps lastFetchedAt and
\* keeps the counts it did not get; a sync that failed stores its message and
\* leaves lastFetchedAt and the counts alone.
C38_UpsertKeepsRest ==
  pc \in {"sync_loop", "exit"} =>
    \A id \in written :
      /\ res[id].ok =>
           /\ db[id].lastFetchedAt = now
           /\ db[id].lastError = db0[id].lastError
           /\ db[id].followers =
                (IF res[id].data.followers # NULL THEN res[id].data.followers
                 ELSE db0[id].followers)
      /\ ~res[id].ok =>
           /\ db[id].lastError = res[id].error
           /\ db[id].lastFetchedAt = db0[id].lastFetchedAt
           /\ db[id].followers = db0[id].followers


\* C39, as claimed: under every setting of IG_RETRIES a call of
\* fetchTextWithRetry that has ended made at least one HTTP attempt, and one
\* that threw threw the error of its last failure.
C39_AttemptAndError ==
  (client = "fetchTextWithRetry" /\ fpc \in {"returned", "thrown"}) =>
    /\ nAttempts >= 1
    /\ fpc = "thrown" => lastErr # NoErr

\* What the code does keep: when IG_RETRIES is unset or parses as a number,
\* the budget is at least 1, every call makes an attempt and a call that
\* throws throws an error.
C39_NumericSetting ==
  (client = "fetchTextWithRetry" /\ retries # NAN_RETRIES) =>
    /\ retries >= 1
    /\ fpc \in {"returned", "thrown"} =>
         /\ nAttempts >= 1
         /\ fpc = "thrown" => lastErr # NoErr

====
